---- MODULE Spec2Model ----
(***************************************************************************)
(* Model of flashcard-inator's extraction core (src/src/llm_client.py):    *)
(* the retry orchestrator LLMClient._generate_flashcards_from_chunk and    *)
(* the response parser LLMClient._extract_flashcards_from_response with    *)
(* its fallback LLMClient._parse_qa_format.                                *)
(*                                                                         *)
(* Text is a sequence of one-character strings.  JSON values are tagged    *)
(* records: [t |-> "str", s], [t |-> "num", s], [t |-> "null"],            *)
(* [t |-> "arr", items], [t |-> "obj", keys, vals].                        *)
(***************************************************************************)
EXTENDS Integers, Sequences, FiniteSets, TLC

VARIABLES
    \* ---- _generate_flashcards_from_chunk (one chunk's retry loop)
    pc,          \* "loop" while the while-loop runs, "returned" after a return
    attempt,     \* the local attempt
    prompt,      \* the local prompt, a sequence of prompt parts
    sent,        \* history: the prompt of every gateway call, in order
    events,      \* history: "call" / <<"sleep", d>> in program order
    returned,    \* the value returned ([] until the return)
    escaped,     \* TRUE iff an exception left the function
    \* ---- _extract_flashcards_from_response / _parse_qa_format
    ppc,         \* "start", "qa" (in the for loop of _parse_qa_format), "done"
    response,    \* the raw text handed to the parser
    structured,  \* what the try block of the structured path did
    lineNo,      \* number of lines of response the for loop has consumed
    current_q,   \* current_q (None is modelled as the empty text)
    current_a,   \* current_a, a sequence of texts
    flashcards,  \* the flashcards list being built by _parse_qa_format
    presult,     \* the parser's return value
    praised,     \* TRUE iff an exception left the parser
    branch,      \* history: the branch the last for-loop iteration took
    \* ---- _chunk_content
    cpc,         \* "start", "loop" (in the for loop over paragraphs), "done"
    content,     \* the text handed to the chunker
    paragraphs,  \* the result of re.split
    paraNo,      \* number of paragraphs the for loop has consumed
    current_chunk, \* current_chunk
    chunks,      \* the chunks list; the return value once cpc = "done"
    \* ---- generate_flashcards
    gpc,         \* "start", "chunking", "chunks", "single", "returned"
    chunkNo,     \* the loop index i (0 before the first chunk)
    all_flashcards, \* all_flashcards; the return value once gpc = "returned"
    handed,      \* history: the chunk indices handed to the retry loop
    results,     \* history: what the retry loop returned for each of them
    log,         \* history: <<i, n>> for every gateway request, in order
    outstanding, \* gateway requests sent and not yet answered
    \* ---- main
    mpc,         \* "args", "config", "scan", "files", "generate", "exit"
    arg_provider, \* the --provider value on the command line
    cfg_provider, \* config.provider
    exit_code,   \* the exit status of the process ("none" while it runs)
    md_files,    \* md_files
    fileNo,      \* number of files the for loop is done with
    collected,   \* main's all_flashcards
    processed_count, \* processed_count
    written,     \* TRUE iff export_to_csv has written the output file
    visited,     \* history: the files read, in order
    requested,   \* history: TRUE iff a gateway request was sent in this run
    \* ---- _call_llm (_call_ollama / _call_lmstudio), one gateway call
    gwpc,        \* "start", "replied", "checked", "returned", "raised", "blocked"
    gw_provider, \* config.provider
    gw_timeout,  \* the timeout the request is sent with (<<>>: wait forever)
    gw_reply,    \* what the backend does with the request
    gw_result,   \* the text returned or the class of the exception raised
    \* ---- export_to_csv
    xpc,         \* "start", "loop" (in the for loop over the cards), "done", "raised"
    x_cards,     \* the flashcards handed to the exporter
    cardNo,      \* number of cards the for loop is done with
    rows         \* the rows written to the output file, in order

orchVars == <<pc, attempt, prompt, sent, events, returned, escaped>>
parseVars == <<ppc, response, structured, lineNo, current_q, current_a,
               flashcards, presult, praised, branch>>
chunkVars == <<cpc, content, paragraphs, paraNo, current_chunk, chunks>>
coordVars == <<gpc, chunkNo, all_flashcards, handed, results, log, outstanding>>
mainVars == <<mpc, arg_provider, cfg_provider, exit_code, md_files, fileNo,
              collected, processed_count, written, visited, requested>>
gwVars == <<gwpc, gw_provider, gw_timeout, gw_reply, gw_result>>
exportVars == <<xpc, x_cards, cardNo, rows>>
vars == <<pc, attempt, prompt, sent, events, returned, escaped,
          ppc, response, structured, lineNo, current_q, current_a,
          flashcards, presult, praised, branch,
          cpc, content, paragraphs, paraNo, current_chunk, chunks,
          gpc, chunkNo, all_flashcards, handed, results, log, outstanding,
          mpc, arg_provider, cfg_provider, exit_code, md_files, fileNo,
          collected, processed_count, written, visited, requested,
          gwpc, gw_provider, gw_timeout, gw_reply, gw_result,
          xpc, x_cards, cardNo, rows>>

\* the variables of the components around the retry loop and the parser
outerVars == <<chunkVars, coordVars, mainVars, gwVars, exportVars>>

\* _chunk_content is not running
ChunkIdle ==
    /\ cpc = "idle"
    /\ content = <<>>
    /\ paragraphs = <<>>
    /\ paraNo = 0
    /\ current_chunk = <<>>
    /\ chunks = <<>>

\* generate_flashcards is not running
CoordIdle ==
    /\ gpc = "idle"
    /\ chunkNo = 0
    /\ all_flashcards = <<>>
    /\ handed = <<>>
    /\ results = <<>>
    /\ log = <<>>
    /\ outstanding = 0

\* main is not running
MainIdle ==
    /\ mpc = "idle"
    /\ arg_provider = <<>>
    /\ cfg_provider = <<>>
    /\ exit_code = "none"
    /\ md_files = <<>>
    /\ fileNo = 0
    /\ collected = <<>>
    /\ processed_count = 0
    /\ written = FALSE
    /\ visited = <<>>
    /\ requested = FALSE

\* timeout=None of requests: the call waits for the reply without limit
NoTimeout == <<>>

\* no gateway call is modelled step by step
GatewayIdle ==
    /\ gwpc = "idle"
    /\ gw_provider = <<>>
    /\ gw_timeout = NoTimeout
    /\ gw_reply = "none"
    /\ gw_result = <<>>

\* no export is modelled step by step
ExportIdle ==
    /\ xpc = "idle"
    /\ x_cards = <<>>
    /\ cardNo = 0
    /\ rows = <<>>

OuterIdle == ChunkIdle /\ CoordIdle /\ MainIdle /\ GatewayIdle /\ ExportIdle

(***************************************************************************)
(* Bounds of the model.                                                    *)
(***************************************************************************)
\* lines per heuristic-path input text
MaxLines == 3
\* entries in the "flashcards" list of a generated JSON input
MaxCards == 2

(***************************************************************************)
(* Text primitives (Python str methods and the two regular expressions).   *)
(***************************************************************************)
NL == "\n"

\* str.strip() and the regex class \s: the whitespace of the modelled alphabet
Whitespace == {" ", NL}

RECURSIVE LStrip(_)
LStrip(s) ==
    IF s # <<>> /\ Head(s) \in Whitespace THEN LStrip(Tail(s)) ELSE s

RECURSIVE RStrip(_)
RStrip(s) ==
    IF s # <<>> /\ s[Len(s)] \in Whitespace
    THEN RStrip(SubSeq(s, 1, Len(s) - 1)) ELSE s

\* str.strip()
Strip(s) == RStrip(LStrip(s))

\* str.startswith(p)
StartsWith(s, p) == Len(s) >= Len(p) /\ SubSeq(s, 1, Len(p)) = p

\* position of the first occurrence of character c in s at or after i, 0 if none
RECURSIVE FindFrom(_, _, _)
FindFrom(s, c, i) ==
    IF i > Len(s) THEN 0
    ELSE IF s[i] = c THEN i
    ELSE FindFrom(s, c, i + 1)

\* position of the last occurrence of character c in s, 0 if none
RECURSIVE FindLast(_, _, _)
FindLast(s, c, i) ==
    IF i < 1 THEN 0
    ELSE IF s[i] = c THEN i
    ELSE FindLast(s, c, i - 1)

\* str.split('\n'): always at least one (possibly empty) line
RECURSIVE SplitLines(_)
SplitLines(s) ==
    LET k == FindFrom(s, NL, 1) IN
    IF k = 0 THEN <<s>>
    ELSE <<SubSeq(s, 1, k - 1)>> \o SplitLines(SubSeq(s, k + 1, Len(s)))

\* the elements of a sequence
Range(s) == { s[i] : i \in 1..Len(s) }

\* ' '.join(parts)
RECURSIVE JoinSpace(_)
JoinSpace(parts) ==
    IF parts = <<>> THEN <<>>
    ELSE IF Len(parts) = 1 THEN parts[1]
    ELSE parts[1] \o <<" ">> \o JoinSpace(Tail(parts))

\* '\n'.join(parts) (used to build input texts)
RECURSIVE JoinLines(_)
JoinLines(parts) ==
    IF parts = <<>> THEN <<>>
    ELSE IF Len(parts) = 1 THEN parts[1]
    ELSE parts[1] \o <<NL>> \o JoinLines(Tail(parts))

\* re.sub(r'^[cls]+', '', s): drop the longest leading run of characters of cls
RECURSIVE DropLeadingClass(_, _)
DropLeadingClass(s, cls) ==
    IF s # <<>> /\ Head(s) \in cls THEN DropLeadingClass(Tail(s), cls) ELSE s

(***************************************************************************)
(* JSON values and json.loads (line 239), for the subset of JSON the       *)
(* modelled alphabet can spell: objects, arrays, strings without escapes,  *)
(* unsigned integers and null, with blanks and newlines between tokens.    *)
(***************************************************************************)
JStr(s) == [t |-> "str", s |-> s]
JNum(digits) == [t |-> "num", s |-> digits]
JNull == [t |-> "null"]
JArr(items) == [t |-> "arr", items |-> items]
JObj(keys, vals) == [t |-> "obj", keys |-> keys, vals |-> vals]

Digits == {"0", "1", "2", "3", "4", "5", "6", "7", "8", "9"}
Quote == "\""

\* a failed parse (json.JSONDecodeError)
JFail == [ok |-> FALSE]
JOk(v, i) == [ok |-> TRUE, v |-> v, i |-> i]

\* first position at or after i that holds no whitespace (Len(s) + 1 if none)
RECURSIVE SkipWs(_, _)
SkipWs(s, i) ==
    IF i <= Len(s) /\ s[i] \in Whitespace THEN SkipWs(s, i + 1) ELSE i

\* end of the digit run that starts at i
RECURSIVE DigitsEnd(_, _)
DigitsEnd(s, i) ==
    IF i <= Len(s) /\ s[i] \in Digits THEN DigitsEnd(s, i + 1) ELSE i

\* a string token whose opening quote is at i; a raw newline inside a string is
\* a control character, which json.loads rejects
ParseString(s, i) ==
    LET j == FindFrom(s, Quote, i + 1) IN
    IF j = 0 THEN JFail
    ELSE IF FindFrom(SubSeq(s, i + 1, j - 1), NL, 1) # 0 THEN JFail
    ELSE JOk(JStr(SubSeq(s, i + 1, j - 1)), j + 1)

RECURSIVE ParseValue(_, _)
RECURSIVE ParseMembers(_, _, _, _)
RECURSIVE ParseElements(_, _, _)

\* the value that starts at position i (whitespace already skipped)
ParseValue(s, i) ==
    IF i > Len(s) THEN JFail
    ELSE IF s[i] = Quote THEN ParseString(s, i)
    ELSE IF s[i] = "{" THEN
        LET j == SkipWs(s, i + 1) IN
        IF j <= Len(s) /\ s[j] = "}" THEN JOk(JObj(<<>>, <<>>), j + 1)
        ELSE ParseMembers(s, j, <<>>, <<>>)
    ELSE IF s[i] = "[" THEN
        LET j == SkipWs(s, i + 1) IN
        IF j <= Len(s) /\ s[j] = "]" THEN JOk(JArr(<<>>), j + 1)
        ELSE ParseElements(s, j, <<>>)
    ELSE IF s[i] \in Digits THEN
        JOk(JNum(SubSeq(s, i, DigitsEnd(s, i) - 1)), DigitsEnd(s, i))
    ELSE IF StartsWith(SubSeq(s, i, Len(s)), <<"n", "u", "l", "l">>) THEN
        JOk(JNull, i + 4)
    ELSE JFail

\* the members of an object from position i on: "key" : value , ... }
ParseMembers(s, i, keys, vals) ==
    IF i > Len(s) \/ s[i] # Quote THEN JFail
    ELSE
        LET k == ParseString(s, i) IN
        IF ~k.ok THEN JFail
        ELSE
            LET c == SkipWs(s, k.i) IN
            IF c > Len(s) \/ s[c] # ":" THEN JFail
            ELSE
                LET v == ParseValue(s, SkipWs(s, c + 1)) IN
                IF ~v.ok THEN JFail
                ELSE
                    LET e == SkipWs(s, v.i) IN
                    IF e > Len(s) THEN JFail
                    ELSE IF s[e] = "}" THEN
                        JOk(JObj(Append(keys, k.v.s), Append(vals, v.v)), e + 1)
                    ELSE IF s[e] = "," THEN
                        ParseMembers(s, SkipWs(s, e + 1),
                                     Append(keys, k.v.s), Append(vals, v.v))
                    ELSE JFail

\* the elements of an array from position i on: value , ... ]
ParseElements(s, i, items) ==
    LET v == ParseValue(s, i) IN
    IF ~v.ok THEN JFail
    ELSE
        LET e == SkipWs(s, v.i) IN
        IF e > Len(s) THEN JFail
        ELSE IF s[e] = "]" THEN JOk(JArr(Append(items, v.v)), e + 1)
        ELSE IF s[e] = "," THEN
            ParseElements(s, SkipWs(s, e + 1), Append(items, v.v))
        ELSE JFail

\* json.loads(s): one value, then nothing but whitespace
JsonLoads(s) ==
    LET r == ParseValue(s, SkipWs(s, 1)) IN
    IF r.ok /\ SkipWs(s, r.i) > Len(s) THEN r ELSE JFail

\* key in d
HasKey(d, key) == \E i \in 1..Len(d.keys) : d.keys[i] = key

\* d[key]: of duplicate keys the last one wins
Lookup(d, key) ==
    d.vals[CHOOSE i \in 1..Len(d.keys) :
              /\ d.keys[i] = key
              /\ \A j \in (i + 1)..Len(d.keys) : d.keys[j] # key]

\* d.get(key, default)
DictGet(d, key, default) == IF HasKey(d, key) THEN Lookup(d, key) ELSE default

(***************************************************************************)
(* A flashcard is a dict, i.e. a JSON object.                              *)
(***************************************************************************)
KeyQuestion == <<"q", "u", "e", "s", "t", "i", "o", "n">>
KeyAnswer == <<"a", "n", "s", "w", "e", "r">>
KeyFlashcards == <<"f", "l", "a", "s", "h", "c", "a", "r", "d", "s">>

\* {"question": q, "answer": a}
MkCard(q, a) == JObj(<<KeyQuestion, KeyAnswer>>, <<JStr(q), JStr(a)>>)

(***************************************************************************)
(* _parse_qa_format: the heuristic Q/A path.                               *)
(***************************************************************************)
QuestionPatterns ==
    { <<"Q", ":">>,
      <<"D", "o", "m", "a", "n", "d", "a", ":">>,
      <<"*", "*", "Q", ":">>,
      <<"Q", "u", "e", "s", "t", "i", "o", "n", ":">> }

AnswerPatterns ==
    { <<"A", ":">>,
      <<"R", "i", "s", "p", "o", "s", "t", "a", ":">>,
      <<"*", "*", "A", ":">>,
      <<"A", "n", "s", "w", "e", "r", ":">> }

\* the character class of r'^[Q\*:Domanda\s]+'
QuestionClass == {"Q", "*", ":", "D", "o", "m", "a", "n", "d"} \cup Whitespace

\* the character class of r'^[A\*:Risposta\s]+'
AnswerClass == {"A", "*", ":", "R", "i", "s", "p", "o", "t", "a"} \cup Whitespace

BulletMarkers == {"-", "*", "+"}

\* any(line.startswith(pattern) for pattern in [...])
IsQuestionLine(line) == \E p \in QuestionPatterns : StartsWith(line, p)
IsAnswerLine(line) == \E p \in AnswerPatterns : StartsWith(line, p)

\* re.sub(r'^[Q\*:Domanda\s]+', '', line).strip()
QuestionText(line) == Strip(DropLeadingClass(line, QuestionClass))

\* re.sub(r'^[A\*:Risposta\s]+', '', line).strip()
AnswerText(line) == Strip(DropLeadingClass(line, AnswerClass))

\* the guard of the third branch of the loop body
IsContinuationLine(q, line) ==
    q # <<>> /\ line # <<>> /\ Head(line) \notin BulletMarkers

\* faulty variant of the seal test: the question is not tested
SealPairAnswerOnly(q, a, cards) ==
    IF a # <<>>
    THEN Append(cards, MkCard(q, Strip(JoinSpace(a))))
    ELSE cards

\* "if current_q and current_a: flashcards.append({...})"
SealPair(q, a, cards) ==
    IF q # <<>> /\ a # <<>>
    THEN Append(cards, MkCard(q, Strip(JoinSpace(a))))
    ELSE cards

\* the locals of _parse_qa_format
QaState(q, a, cards) == [current_q |-> q, current_a |-> a, flashcards |-> cards]

\* one iteration of "for line in lines"
QaLine(st, rawline) ==
    LET line == Strip(rawline) IN
    IF IsQuestionLine(line) THEN
        QaState(QuestionText(line), <<>>,
                SealPair(st.current_q, st.current_a, st.flashcards))
    ELSE IF IsAnswerLine(line) THEN
        QaState(st.current_q,
                IF AnswerText(line) # <<>> THEN <<AnswerText(line)>> ELSE <<>>,
                st.flashcards)
    ELSE IF IsContinuationLine(st.current_q, line) THEN
        QaState(st.current_q, Append(st.current_a, line), st.flashcards)
    ELSE st

\* the whole for loop, from the state st over the lines
RECURSIVE QaLoop(_, _)
QaLoop(st, lines) ==
    IF lines = <<>> THEN st ELSE QaLoop(QaLine(st, Head(lines)), Tail(lines))

\* the code after the loop: seal the last pair and return flashcards
QaReturnValue(st) == SealPair(st.current_q, st.current_a, st.flashcards)

\* _parse_qa_format(response)
ParseQaFormat(resp) ==
    QaReturnValue(QaLoop(QaState(<<>>, <<>>, <<>>), SplitLines(resp)))

(***************************************************************************)
(* _extract_flashcards_from_response: the structured path.                 *)
(***************************************************************************)
\* re.search(r'\{.*\}', response, re.DOTALL): from the first "{" to the last "}"
FirstBrace(resp) == FindFrom(resp, "{", 1)
LastBrace(resp) == FindLast(resp, "}", Len(resp))
HasJsonMatch(resp) == FirstBrace(resp) > 0 /\ LastBrace(resp) > FirstBrace(resp)
JsonSpan(resp) == SubSeq(resp, FirstBrace(resp), LastBrace(resp))

Raise(what) == [kind |-> "raise", what |-> what]
Return(cards) == [kind |-> "return", cards |-> cards]

\* the test of one card; "raise" when .strip() is called on a non-string.
\* Python evaluates card["answer"].strip() only if the question is non-blank.
CardCheck(card) ==
    IF ~(card.t = "obj" /\ HasKey(card, KeyQuestion) /\ HasKey(card, KeyAnswer))
    THEN "skip"
    ELSE IF Lookup(card, KeyQuestion).t # "str" THEN "raise"
    ELSE IF Strip(Lookup(card, KeyQuestion).s) = <<>> THEN "skip"
    ELSE IF Lookup(card, KeyAnswer).t # "str" THEN "raise"
    ELSE IF Strip(Lookup(card, KeyAnswer).s) = <<>> THEN "skip"
    ELSE "keep"

\* "for card in flashcards" over a list, valid holding the cards kept so far
RECURSIVE FilterCards(_, _)
FilterCards(items, valid) ==
    IF items = <<>> THEN Return(valid)
    ELSE IF CardCheck(Head(items)) = "raise" THEN Raise("AttributeError")
    ELSE IF CardCheck(Head(items)) = "keep"
        THEN FilterCards(Tail(items), Append(valid, Head(items)))
    ELSE FilterCards(Tail(items), valid)

\* the loop over data.get("flashcards", []): a list yields its entries, a string
\* its characters and a dict its keys (none of them a dict); None and numbers
\* are not iterable
ValidFlashcards(fv) ==
    IF fv.t = "arr" THEN FilterCards(fv.items, <<>>)
    ELSE IF fv.t \in {"str", "obj"} THEN Return(<<>>)
    ELSE Raise("TypeError")

\* the body of the try block: "nomatch" is the else branch of "if json_match"
TryStructured(resp) ==
    IF ~HasJsonMatch(resp) THEN [kind |-> "nomatch"]
    ELSE IF ~JsonLoads(JsonSpan(resp)).ok THEN Raise("JSONDecodeError")
    ELSE ValidFlashcards(DictGet(JsonLoads(JsonSpan(resp)).v, KeyFlashcards,
                                 JArr(<<>>)))

\* faulty variant of the except clause: only JSON decoding errors
ParseExceptCatchesDecodeOnly(what) == what = "JSONDecodeError"

\* "except Exception as e" (line 253): every exception of the try block is an
\* Exception, so the clause catches it whatever its class
ParseExceptCatches(what) == TRUE

\* the outcome of _extract_flashcards_from_response: a caught exception of the
\* try block becomes a call of the fallback parser (line 259)
Outcome(raised, cards) == [raised |-> raised, cards |-> cards]

ExtractFlashcardsFromResponse(resp) ==
    IF TryStructured(resp).kind = "return"
    THEN Outcome(FALSE, TryStructured(resp).cards)
    ELSE IF TryStructured(resp).kind = "raise"
            /\ ~ParseExceptCatches(TryStructured(resp).what)
    THEN Outcome(TRUE, <<>>)
    ELSE Outcome(FALSE, ParseQaFormat(resp))

(***************************************************************************)
(* The raw texts the parser is run on.                                     *)
(*                                                                         *)
(* Heuristic-path texts are all texts of at most MaxLines lines over       *)
(* QaLines.  Structured-path texts are renderings of JSON documents whose  *)
(* "flashcards" list holds at most MaxCards entries drawn from Entries,    *)
(* alone or inside surrounding text.                                       *)
(***************************************************************************)
QaLines ==
    { <<"Q", ":", " ", "W", "h", "o">>,
      <<"Q", "u", "e", "s", "t", "i", "o", "n", ":", " ", "X">>,
      <<"Q", ":", " ", "D", "o", " ", "i", "t">>,
      <<"*", "*", "Q", ":", "*", "*", " ", "W", "h", "o">>,
      <<"D", "o", "m", "a", "n", "d", "a", ":", " ", "n", "o">>,
      <<"A", ":", " ", "Y", "e", "s">>,
      <<"A", "n", "s", "w", "e", "r", ":", " ", "Y">>,
      <<" ", "A", ":", " ", "s", "o", " ">>,
      <<"m", "o", "r", "e">>,
      <<"-", " ", "b">>,
      <<>> }

QaTexts ==
    { JoinLines(ls) : ls \in UNION { [1..n -> QaLines] : n \in 1..MaxLines } }

\* json.dumps-like rendering; gap is put after "{", "[", "," and ":" and before
\* "}" and "]"
RECURSIVE Render(_, _)
RECURSIVE RenderItems(_, _)
RECURSIVE RenderMembers(_, _, _)
Render(v, gap) ==
    IF v.t = "str" THEN <<Quote>> \o v.s \o <<Quote>>
    ELSE IF v.t = "num" THEN v.s
    ELSE IF v.t = "null" THEN <<"n", "u", "l", "l">>
    ELSE IF v.t = "arr" THEN <<"[">> \o gap \o RenderItems(v.items, gap) \o <<"]">>
    ELSE <<"{">> \o gap \o RenderMembers(v.keys, v.vals, gap) \o <<"}">>

RenderItems(items, gap) ==
    IF items = <<>> THEN <<>>
    ELSE IF Len(items) = 1 THEN Render(items[1], gap) \o gap
    ELSE Render(items[1], gap) \o <<",">> \o gap \o RenderItems(Tail(items), gap)

RenderMembers(keys, vals, gap) ==
    IF keys = <<>> THEN <<>>
    ELSE
        LET m == <<Quote>> \o keys[1] \o <<Quote, ":">> \o gap \o Render(vals[1], gap)
        IN  IF Len(keys) = 1 THEN m \o gap
            ELSE m \o <<",">> \o gap \o RenderMembers(Tail(keys), Tail(vals), gap)

Entries ==
    { MkCard(<<"Q", "1">>, <<"A", "1">>),
      MkCard(<<>>, <<"A", "2">>),
      MkCard(<<"Q", "3">>, <<" ">>),
      JObj(<<KeyQuestion>>, <<JStr(<<"Q", "4">>)>>),
      JObj(<<KeyQuestion, KeyAnswer>>, <<JStr(<<"Q", "5">>), JNum(<<"5">>)>>),
      JObj(<<KeyQuestion, KeyAnswer>>, <<JNull, JStr(<<"A", "6">>)>>),
      JObj(<<KeyQuestion, KeyAnswer>>, <<JStr(<<" ">>), JNum(<<"8">>)>>),
      JNum(<<"7">>) }

CardLists == UNION { [1..n -> Entries] : n \in 0..MaxCards }

\* documents: {"flashcards": [...]}, and objects whose "flashcards" is missing or
\* not a list
JsonDocs ==
    { JObj(<<KeyFlashcards>>, <<JArr(l)>>) : l \in CardLists }
    \cup { JObj(<<KeyFlashcards>>, <<x>>) :
             x \in {JNull, JNum(<<"5">>), JStr(<<"a", "b">>),
                    MkCard(<<"Q", "1">>, <<"A", "1">>)} }
    \cup { JObj(<<>>, <<>>),
           JObj(<<<<"c", "a", "r", "d", "s">>>>,
                <<JArr(<<MkCard(<<"Q", "1">>, <<"A", "1">>)>>)>>) }

QaPair == <<"Q", ":", " ", "W", "h", "o", NL, "A", ":", " ", "Y", "e", "s">>

\* a rendered document: alone, pretty-printed, after prose, before or after a
\* Q/A pair, followed by a second brace group, or cut short
JsonTexts ==
    UNION { { Render(d, <<>>),
              Render(d, <<NL, " ">>),
              <<"O", "k", ":", " ">> \o Render(d, <<>>),
              Render(d, <<>>) \o <<NL>> \o QaPair,
              QaPair \o <<NL>> \o Render(d, <<" ">>),
              Render(d, <<>>) \o <<" ", "{", "x", "}">>,
              SubSeq(Render(d, <<>>), 1, Len(Render(d, <<>>)) - 1) } :
            d \in JsonDocs }

\* texts without a brace pair in the right order
NoMatchTexts ==
    { <<>>, <<"}", " ", "{">>, <<"{">>, <<"}", NL>> \o QaPair }

\* lines that put a colon-terminated word, plain or inside bold markup, at the
\* start of a line
MarkerLines ==
    { <<"*", "*", "Q", "u", "e", "s", "t", "i", "o", "n", ":", "*", "*", " ", "X">>,
      <<"*", "*", "D", "o", "m", "a", "n", "d", "a", ":", " ", "n", "o">>,
      <<"*", "*", "A", ":", "*", "*", " ", "Y">>,
      <<"*", "*", "A", "n", "s", "w", "e", "r", ":", "*", "*", " ", "Y">>,
      <<"*", "*", "R", "i", "s", "p", "o", "s", "t", "a", ":", " ", "s", "i">>,
      <<"R", "i", "s", "p", "o", "s", "t", "a", ":", " ", "s", "i">>,
      <<"q", ":", " ", "w", "h", "o">>,
      <<"Q", " ", "W", "h", "o">>,
      <<"*", "Q", ":", " ", "W", "h", "o">> }

\* a marker line alone, and after a question line
MarkerTexts ==
    MarkerLines \cup { <<"Q", ":", " ", "W", "h", "o", NL>> \o l : l \in MarkerLines }

RawTexts == QaTexts \cup JsonTexts \cup NoMatchTexts \cup MarkerTexts

(***************************************************************************)
(* The parser as a state machine: the structured path is one step, the     *)
(* for loop of _parse_qa_format one step per line.                         *)
(***************************************************************************)
Lines == SplitLines(response)

\* the line the loop consumes next, stripped (line 269)
NextLine == Strip(Lines[lineNo + 1])

OrchIdle ==
    /\ pc = "idle"
    /\ attempt = 0
    /\ prompt = <<>>
    /\ sent = <<>>
    /\ events = <<>>
    /\ returned = <<>>
    /\ escaped = FALSE

ParserInit ==
    /\ OrchIdle
    /\ OuterIdle
    /\ ppc = "start"
    /\ response \in RawTexts
    /\ structured = "none"
    /\ lineNo = 0
    /\ current_q = <<>>
    /\ current_a = <<>>
    /\ flashcards = <<>>
    /\ presult = <<>>
    /\ praised = FALSE
    /\ branch = "none"

\* the try block (lines 233-252) on each raw text
Tried == [resp \in RawTexts |-> TryStructured(resp)]

\* lines 237-249: the span parses and the filtered list is returned
StructuredReturn ==
    /\ ppc = "start"
    /\ Tried[response].kind = "return"
    /\ ppc' = "done"
    /\ structured' = "return"
    /\ presult' = Tried[response].cards
    /\ UNCHANGED <<response, lineNo, current_q, current_a, flashcards, praised,
                   branch>>
    /\ UNCHANGED <<orchVars, outerVars>>

\* lines 250-252: no brace span, _parse_qa_format is entered
NoMatchFallback ==
    /\ ppc = "start"
    /\ Tried[response].kind = "nomatch"
    /\ ppc' = "qa"
    /\ structured' = "nomatch"
    /\ UNCHANGED <<response, lineNo, current_q, current_a, flashcards, presult,
                   praised, branch>>
    /\ UNCHANGED <<orchVars, outerVars>>

\* lines 253-259: the try block raised; if the except clause catches the
\* exception _parse_qa_format is entered, else the exception leaves the parser
ParseErrorFallback ==
    /\ ppc = "start"
    /\ Tried[response].kind = "raise"
    /\ structured' = Tried[response].what
    /\ IF ParseExceptCatches(Tried[response].what)
       THEN ppc' = "qa" /\ praised' = praised
       ELSE ppc' = "done" /\ praised' = TRUE
    /\ UNCHANGED <<response, lineNo, current_q, current_a, flashcards, presult,
                   branch>>
    /\ UNCHANGED <<orchVars, outerVars>>

\* one iteration of the for loop: the branch `kind` is entered when its
\* condition `taken` holds
QaIteration(taken, kind) ==
    /\ ppc = "qa"
    /\ lineNo < Len(Lines)
    /\ taken
    /\ branch' = kind
    /\ LET st == QaLine(QaState(current_q, current_a, flashcards),
                        Lines[lineNo + 1])
       IN  /\ current_q' = st.current_q
           /\ current_a' = st.current_a
           /\ flashcards' = st.flashcards
    /\ lineNo' = lineNo + 1
    /\ UNCHANGED <<ppc, response, structured, presult, praised>>
    /\ UNCHANGED <<orchVars, outerVars>>

\* lines 272-282
QaQuestionLine == QaIteration(IsQuestionLine(NextLine), "question")

\* lines 285-288
QaAnswerLine ==
    QaIteration(~IsQuestionLine(NextLine) /\ IsAnswerLine(NextLine), "answer")

\* lines 291-292
QaContinuationLine ==
    QaIteration(/\ ~IsQuestionLine(NextLine)
                /\ ~IsAnswerLine(NextLine)
                /\ IsContinuationLine(current_q, NextLine),
                "continuation")

\* a line none of the three branches takes
QaIgnoredLine ==
    QaIteration(/\ ~IsQuestionLine(NextLine)
                /\ ~IsAnswerLine(NextLine)
                /\ ~IsContinuationLine(current_q, NextLine),
                "ignored")

\* lines 294-301: the loop is over
QaReturn ==
    /\ ppc = "qa"
    /\ lineNo = Len(Lines)
    /\ ppc' = "done"
    /\ presult' = QaReturnValue(QaState(current_q, current_a, flashcards))
    /\ UNCHANGED <<response, structured, lineNo, current_q, current_a,
                   flashcards, praised, branch>>
    /\ UNCHANGED <<orchVars, outerVars>>

ParserNext ==
    \/ StructuredReturn
    \/ NoMatchFallback
    \/ ParseErrorFallback
    \/ QaQuestionLine
    \/ QaAnswerLine
    \/ QaContinuationLine
    \/ QaIgnoredLine
    \/ QaReturn

ParserSpec == ParserInit /\ [][ParserNext]_vars

(***************************************************************************)
(* _generate_flashcards_from_chunk: the retry loop of one chunk.           *)
(***************************************************************************)
\* self.max_retries
MaxRetries == 3
\* self.retry_delay, in seconds
RetryDelay == 2

\* the sentence line 127 appends to the prompt
Reinforcement == "PLEASE ENSURE TO GENERATE VALID FLASHCARDS IN THE SPECIFIED JSON FORMAT."

\* the language block of _create_prompt
LangInstruction(language) ==
    IF language = "it" THEN "Crea delle flashcards in ITALIANO"
    ELSE "Create flashcards in the same language as the content"

\* _create_prompt: the prompt as the sequence of its parts
CreatePrompt(body, filename, language) ==
    <<"Analyze the following content", filename, LangInstruction(language),
      "RULES", "OUTPUT FORMAT", "CONTENT TO ANALYZE", body>>

ContainsReinforcement(p) == \E i \in 1..Len(p) : p[i] = Reinforcement

\* what a gateway call (_call_ollama, _call_lmstudio) can raise: session.post,
\* raise_for_status, response.json() and the subscripts of the reply
GatewayErrors == {"ConnectionError", "HTTPError", "JSONDecodeError", "KeyError"}

\* texts the gateway can return
ReplyOneCard ==
    Render(JObj(<<KeyFlashcards>>,
                <<JArr(<<MkCard(<<"Q", "1">>, <<"A", "1">>)>>)>>), <<>>)

ReplyTwoCards ==
    Render(JObj(<<KeyFlashcards>>,
                <<JArr(<<MkCard(<<"Q", "1">>, <<"A", "1">>),
                         MkCard(<<"Q", "3">>, <<"A", "3">>)>>)>>),
           <<NL, " ">>)

ReplyNoCards == Render(JObj(<<KeyFlashcards>>, <<JArr(<<>>)>>), <<>>)

GatewayTexts ==
    { ReplyOneCard,
      ReplyTwoCards,
      ReplyNoCards,
      Render(JObj(<<KeyFlashcards>>,
                  <<JArr(<<JObj(<<KeyQuestion, KeyAnswer>>,
                                <<JStr(<<"Q", "5">>), JNum(<<"5">>)>>)>>)>>),
             <<>>),
      QaPair,
      <<"m", "o", "r", "e">> }

\* line 108 for each text the gateway can return
Parsed == [resp \in GatewayTexts |-> ExtractFlashcardsFromResponse(resp)]

\* an exception that leaves _extract_flashcards_from_response is raised inside
\* the try block of the loop as well
ParserErrors ==
    IF \E r \in GatewayTexts : Parsed[r].raised
    THEN {"ParserError"} ELSE {}

\* faulty variant of the loop test: one attempt too many
LoopContinuesInclusive(n) == n <= MaxRetries

\* "while attempt < max_attempts" (line 99)
LoopContinues(n) == n < MaxRetries

\* faulty variant of the success test: a single flashcard does not count
GotSeveralFlashcards(cards) == Len(cards) > 1

\* "if flashcards and len(flashcards) > 0" (line 111)
GotFlashcards(cards) == cards # <<>> /\ Len(cards) > 0

\* faulty variant of the backoff: the exponent is not shifted
BackoffDelayShifted(n) == RetryDelay * 2 ^ n

\* "self.retry_delay * (2 ** (attempt - 1))" (lines 123 and 139)
BackoffDelay(n) == RetryDelay * 2 ^ (n - 1)

\* faulty variant of the except clause: only the errors of the HTTP library
LoopExceptCatchesRequestsOnly(what) == what \in {"ConnectionError", "HTTPError"}

\* "except Exception as e" (line 129)
LoopExceptCatches(what) == TRUE

\* the clause added after every failed attempt
AdjustPromptEveryTime(p, n) == Append(p, Reinforcement)

\* "if attempt == 1: prompt += ..." (lines 126-127), n the incremented attempt
AdjustPrompt(p, n) == IF n = 1 THEN Append(p, Reinforcement) ELSE p

\* history records: out is "ok", "empty" or the class of the exception raised
CallEvent(n, out, resp) == [e |-> "call", n |-> n, out |-> out, resp |-> resp]
SleepEvent(d) == [e |-> "sleep", d |-> d]

\* "if attempt < max_attempts: time.sleep(...)" after the increment to n
Backoff(n) == IF n < MaxRetries THEN <<SleepEvent(BackoffDelay(n))>> ELSE <<>>

ParserIdle ==
    /\ ppc = "idle"
    /\ response = <<>>
    /\ structured = "none"
    /\ lineNo = 0
    /\ current_q = <<>>
    /\ current_a = <<>>
    /\ flashcards = <<>>
    /\ presult = <<>>
    /\ praised = FALSE
    /\ branch = "none"

\* lines 92-97
Init ==
    /\ ParserIdle
    /\ OuterIdle
    /\ pc = "loop"
    /\ attempt = 0
    /\ \E language \in {"it", "en"} :
          prompt = CreatePrompt("chunk", "note.md", language)
    /\ sent = <<>>
    /\ events = <<>>
    /\ returned = <<>>
    /\ escaped = FALSE

\* lines 100-112: the gateway answers one of `texts` and the parser finds
\* flashcards
SucceedsOn(texts) ==
    /\ pc = "loop"
    /\ LoopContinues(attempt)
    /\ \E resp \in texts :
          /\ ~Parsed[resp].raised
          /\ GotFlashcards(Parsed[resp].cards)
          /\ sent' = Append(sent, prompt)
          /\ events' = Append(events, CallEvent(attempt + 1, "ok", resp))
          /\ returned' = Parsed[resp].cards
    /\ pc' = "success"
    /\ UNCHANGED <<attempt, prompt, escaped>>

AttemptSucceeds ==
    SucceedsOn(GatewayTexts) /\ UNCHANGED <<parseVars, outerVars>>

\* lines 100-127: the gateway answers one of `texts` and the parser finds
\* nothing
EmptyOn(texts) ==
    /\ pc = "loop"
    /\ LoopContinues(attempt)
    /\ \E resp \in texts :
          /\ ~Parsed[resp].raised
          /\ ~GotFlashcards(Parsed[resp].cards)
          /\ sent' = Append(sent, prompt)
          /\ events' = Append(events, CallEvent(attempt + 1, "empty", resp))
                          \o Backoff(attempt + 1)
    /\ attempt' = attempt + 1
    /\ prompt' = IF attempt + 1 < MaxRetries
                 THEN AdjustPrompt(prompt, attempt + 1) ELSE prompt
    /\ UNCHANGED <<pc, returned, escaped>>

AttemptEmpty ==
    EmptyOn(GatewayTexts) /\ UNCHANGED <<parseVars, outerVars>>

\* lines 100-105 and 129-139: the gateway call (or the parser) raises one of
\* `errors`
RaisesOn(errors) ==
    /\ pc = "loop"
    /\ LoopContinues(attempt)
    /\ \E what \in errors :
          /\ sent' = Append(sent, prompt)
          /\ IF LoopExceptCatches(what)
             THEN /\ events' = Append(events, CallEvent(attempt + 1, what, <<>>))
                                  \o Backoff(attempt + 1)
                  /\ attempt' = attempt + 1
                  /\ UNCHANGED <<pc, escaped>>
             ELSE /\ events' = Append(events, CallEvent(attempt + 1, what, <<>>))
                  /\ pc' = "raised"
                  /\ escaped' = TRUE
                  /\ UNCHANGED attempt
    /\ UNCHANGED <<prompt, returned>>

AttemptRaises ==
    RaisesOn(GatewayErrors \cup ParserErrors)
    /\ UNCHANGED <<parseVars, outerVars>>

\* lines 141-145: the loop ends with every attempt used
LoopEnds ==
    /\ pc = "loop"
    /\ ~LoopContinues(attempt)
    /\ pc' = "exhausted"
    /\ returned' = <<>>
    /\ UNCHANGED <<attempt, prompt, sent, events, escaped>>

Exhausted == LoopEnds /\ UNCHANGED <<parseVars, outerVars>>

Next ==
    \/ AttemptSucceeds
    \/ AttemptEmpty
    \/ AttemptRaises
    \/ Exhausted

Spec == Init /\ [][Next]_vars

\* every gateway call ends (it returns or raises) and the loop then goes on
FairSpec == Spec /\ WF_vars(Next)

(***************************************************************************)
(* _chunk_content.  The texts of this part are thousands of characters     *)
(* long, so a text is held as the sequence of its runs: Run(c, n) stands   *)
(* for n >= 1 copies of the character c, and neighbouring runs hold        *)
(* different characters.                                                   *)
(***************************************************************************)
\* max_chars: int = 6000
DefaultMaxChars == 6000

Run(c, n) == [c |-> c, n |-> n]

\* len(text)
RECURSIVE TLen(_)
TLen(t) == IF t = <<>> THEN 0 ELSE Head(t).n + TLen(Tail(t))

\* s + t
Cat(s, t) ==
    IF s = <<>> THEN t
    ELSE IF t = <<>> THEN s
    ELSE IF s[Len(s)].c = t[1].c
         THEN SubSeq(s, 1, Len(s) - 1)
              \o <<Run(t[1].c, s[Len(s)].n + t[1].n)>> \o Tail(t)
         ELSE s \o t

\* text.strip()
TStrip(t) ==
    LET ks == { k \in 1..Len(t) : t[k].c \notin Whitespace } IN
    IF ks = {} THEN <<>>
    ELSE SubSeq(t, CHOOSE k \in ks : \A m \in ks : k <= m,
                   CHOOSE k \in ks : \A m \in ks : m <= k)

\* text[:k] and text[k:]
RECURSIVE Take(_, _)
Take(t, k) ==
    IF k <= 0 \/ t = <<>> THEN <<>>
    ELSE IF Head(t).n <= k THEN <<Head(t)>> \o Take(Tail(t), k - Head(t).n)
    ELSE <<Run(Head(t).c, k)>>

RECURSIVE Drop(_, _)
Drop(t, k) ==
    IF k <= 0 \/ t = <<>> THEN t
    ELSE IF Head(t).n <= k THEN Drop(Tail(t), k - Head(t).n)
    ELSE <<Run(Head(t).c, Head(t).n - k)>> \o Tail(t)

\* [content[i:i+max_chars] for i in range(0, len(content), max_chars)]
RECURSIVE Slices(_, _)
Slices(t, max_chars) ==
    IF t = <<>> THEN <<>>
    ELSE <<Take(t, max_chars)>> \o Slices(Drop(t, max_chars), max_chars)

\* r'\n\s*\n' matched at the newline run f: greedy \s* runs to the last
\* newline of the whitespace around f; BreakEnd is the run of that newline
BreakEnd(t, f) ==
    CHOOSE l \in f..Len(t) :
        /\ t[l].c = NL
        /\ \A k \in f..l : t[k].c \in Whitespace
        /\ \A m \in (l + 1)..Len(t) :
              ~(t[m].c = NL /\ \A k \in f..m : t[k].c \in Whitespace)

\* the pattern needs two newlines: two in the run f, or a later newline run
IsBreakStart(t, f) ==
    t[f].c = NL /\ (t[f].n >= 2 \/ BreakEnd(t, f) > f)

\* re.split(r'\n\s*\n', content)
RECURSIVE Split(_)
Split(t) ==
    LET starts == { f \in 1..Len(t) : IsBreakStart(t, f) } IN
    IF starts = {} THEN <<t>>
    ELSE LET f == CHOOSE k \in starts : \A m \in starts : k <= m IN
         <<SubSeq(t, 1, f - 1)>> \o Split(SubSeq(t, BreakEnd(t, f) + 1, Len(t)))

\* "\n\n"
ParagraphBreak == <<Run(NL, 2)>>

\* faulty variant of the short-input result: the text is trimmed
ShortResultTrimmed(text) == <<TStrip(text)>>

\* lines 317-319: return [content]
ShortResult(text) == <<text>>

\* faulty variant of the seal test: every paragraph is added to the chunk
OverflowsNever(cur, para, max_chars) == FALSE

\* line 329: len(current_chunk) + len(para) > max_chars and current_chunk
Overflows(cur, para, max_chars) ==
    TLen(cur) + TLen(para) > max_chars /\ cur # <<>>

\* faulty variant of the seal: the next chunk starts empty
SealedStartEmpty(para) == <<>>

\* line 331: current_chunk = para
SealedStart(para) == para

\* faulty variant of the else branch: the paragraph is not kept
ExtendedByNothing(cur, para) == cur

\* lines 333-336
Extended(cur, para) ==
    IF cur # <<>> THEN Cat(Cat(cur, ParagraphBreak), para) ELSE para

(***************************************************************************)
(* Input texts of the chunker.                                             *)
(***************************************************************************)
\* runs per text
MaxRuns == 4
\* paragraphs per document
MaxParagraphs == 5

RunSet ==
    { Run(c, n) : c \in {"a", " ", NL}, n \in {1, 2, 6001} }
    \cup { Run("a", 3000) }

\* every text of at most MaxRuns runs
RunTexts ==
    { t \in UNION { [1..n -> RunSet] : n \in 0..MaxRuns } :
        \A i \in 1..(Len(t) - 1) : t[i].c # t[i + 1].c }

RECURSIVE JoinBreaks(_)
JoinBreaks(ps) ==
    IF ps = <<>> THEN <<>>
    ELSE IF Len(ps) = 1 THEN ps[1]
    ELSE Cat(Cat(ps[1], ParagraphBreak), JoinBreaks(Tail(ps)))

\* documents of at most MaxParagraphs paragraphs of letters, none longer than
\* DefaultMaxChars, separated by "\n\n"
ParagraphDocs ==
    { JoinBreaks([i \in 1..Len(sz) |-> <<Run("a", sz[i])>>]) :
        sz \in UNION { [1..n -> {988, 3001, 4000, 4996, 6000}] :
                       n \in 1..MaxParagraphs } }

ChunkTexts == RunTexts \cup ParagraphDocs

(***************************************************************************)
(* The chunker as a state machine, one step per loop iteration.            *)
(***************************************************************************)
ChunkInit ==
    /\ OrchIdle
    /\ ParserIdle
    /\ CoordIdle
    /\ MainIdle
    /\ GatewayIdle
    /\ ExportIdle
    /\ cpc = "start"
    /\ content \in ChunkTexts
    /\ paragraphs = <<>>
    /\ paraNo = 0
    /\ current_chunk = <<>>
    /\ chunks = <<>>

\* lines 317-319
ChunkShort ==
    /\ cpc = "start"
    /\ TLen(content) <= DefaultMaxChars
    /\ cpc' = "done"
    /\ chunks' = ShortResult(content)
    /\ UNCHANGED <<content, paragraphs, paraNo, current_chunk>>
    /\ UNCHANGED <<orchVars, parseVars, gwVars, exportVars, coordVars, mainVars>>

\* lines 322-324
ChunkSplit ==
    /\ cpc = "start"
    /\ TLen(content) > DefaultMaxChars
    /\ cpc' = "loop"
    /\ paragraphs' = Split(content)
    /\ UNCHANGED <<content, paraNo, current_chunk, chunks>>
    /\ UNCHANGED <<orchVars, parseVars, gwVars, exportVars, coordVars, mainVars>>

\* lines 326-331: the paragraph does not fit, the chunk is sealed
ChunkSeal ==
    /\ cpc = "loop"
    /\ paraNo < Len(paragraphs)
    /\ Overflows(current_chunk, paragraphs[paraNo + 1], DefaultMaxChars)
    /\ chunks' = Append(chunks, TStrip(current_chunk))
    /\ current_chunk' = SealedStart(paragraphs[paraNo + 1])
    /\ paraNo' = paraNo + 1
    /\ UNCHANGED <<cpc, content, paragraphs>>
    /\ UNCHANGED <<orchVars, parseVars, gwVars, exportVars, coordVars, mainVars>>

\* lines 332-336: the paragraph is added to the current chunk
ChunkExtend ==
    /\ cpc = "loop"
    /\ paraNo < Len(paragraphs)
    /\ ~Overflows(current_chunk, paragraphs[paraNo + 1], DefaultMaxChars)
    /\ current_chunk' = Extended(current_chunk, paragraphs[paraNo + 1])
    /\ paraNo' = paraNo + 1
    /\ UNCHANGED <<cpc, content, paragraphs, chunks>>
    /\ UNCHANGED <<orchVars, parseVars, gwVars, exportVars, coordVars, mainVars>>

\* lines 339-346: the last chunk, the fallback slicing, the return
ChunkFinish ==
    /\ cpc = "loop"
    /\ paraNo = Len(paragraphs)
    /\ cpc' = "done"
    /\ LET packed == IF current_chunk # <<>>
                     THEN Append(chunks, TStrip(current_chunk))
                     ELSE chunks
       IN  chunks' = IF packed = <<>>
                     THEN Slices(content, DefaultMaxChars)
                     ELSE packed
    /\ UNCHANGED <<content, paragraphs, paraNo, current_chunk>>
    /\ UNCHANGED <<orchVars, parseVars, gwVars, exportVars, coordVars, mainVars>>

ChunkNext ==
    \/ ChunkShort
    \/ ChunkSplit
    \/ ChunkSeal
    \/ ChunkExtend
    \/ ChunkFinish

ChunkSpec == ChunkInit /\ [][ChunkNext]_vars

(***************************************************************************)
(* main and generate_flashcards: the run of the program over the files of  *)
(* a vault.  _chunk_content runs as the steps ChunkSplit ... ChunkFinish,  *)
(* the retry loop of a chunk as the steps of the retry loop above, each    *)
(* gateway request being sent in one step and answered in a later one.     *)
(***************************************************************************)
\* "if content_length > 6000" (llm_client.py line 51)
ChunkThreshold == 6000

\* argparse: choices=["ollama", "lmstudio"] (main.py line 39)
ProviderChoices ==
    { <<"o", "l", "l", "a", "m", "a">>,
      <<"l", "m", "s", "t", "u", "d", "i", "o">> }

\* config.py line 27
SupportedProviders ==
    { <<"o", "l", "l", "a", "m", "a">>,
      <<"l", "m", "s", "t", "u", "d", "i", "o">> }

\* str.lower()
Lower(s) ==
    [i \in 1..Len(s) |->
        CASE s[i] = "O" -> "o"
          [] s[i] = "L" -> "l"
          [] s[i] = "M" -> "m"
          [] s[i] = "S" -> "s"
          [] OTHER -> s[i]]

\* faulty variant of the argument parser: --provider has no choices
ArgparseAcceptsAny(p) == TRUE

\* parse_args() on --provider: a value outside choices ends the process
ArgparseAccepts(p) == p \in ProviderChoices

\* should_process_file on the cleaned content of a file
ShouldProcess(file) == TLen(TStrip(file.content)) >= 100

\* card['tags'] = f"obsidian {file_path.stem.replace(' ', '_')}"
Tagged(cards, stem) ==
    [i \in 1..Len(cards) |->
        JObj(cards[i].keys \o <<<<"t", "a", "g", "s">>>>,
             cards[i].vals
             \o <<JStr(<<"obsidian", " ">>
                       \o [k \in 1..Len(stem) |->
                              IF stem[k] = " " THEN "_" ELSE stem[k]])>>)]

\* faulty variant of extend: the new flashcards are put in front
ExtendedInFront(cards, more) == more \o cards

\* all_flashcards.extend(chunk_flashcards)
ExtendedWith(cards, more) == cards \o more

\* faulty variant of the gateway call: it does not wait for the reply
PostReturnedAlways(n) == TRUE

\* session.post returns only when the reply is there: the next request is
\* sent when none is outstanding
PostReturned(n) == n = 0

\* the outcomes of a gateway call in the runs of the whole program
PipelineTexts == {ReplyOneCard, ReplyTwoCards, ReplyNoCards}
PipelineErrors == {"ConnectionError"}

\* --provider values
ProviderArgs ==
    ProviderChoices
    \cup { <<"O", "l", "l", "a", "m", "a">>, <<"o", "p", "e", "n", "a", "i">> }

\* files per vault
MaxFiles == 2

\* a file too short to be processed, a file below the chunk threshold and a
\* file of two paragraphs above it
VaultFiles ==
    { [stem |-> <<"t">>, content |-> <<Run("a", 50)>>],
      [stem |-> <<"s", " ", "n">>, content |-> <<Run("a", 988)>>],
      [stem |-> <<"l">>,
       content |-> <<Run("a", 4000), Run(NL, 2), Run("a", 4000)>>] }

Vaults == UNION { [1..n -> VaultFiles] : n \in 0..MaxFiles }

PipelineInit ==
    /\ OrchIdle
    /\ ParserIdle
    /\ ChunkIdle
    /\ CoordIdle
    /\ GatewayIdle
    /\ ExportIdle
    /\ mpc = "args"
    /\ arg_provider \in ProviderArgs
    /\ cfg_provider = <<>>
    /\ exit_code = "none"
    /\ md_files = <<>>
    /\ fileNo = 0
    /\ collected = <<>>
    /\ processed_count = 0
    /\ written = FALSE
    /\ visited = <<>>
    /\ requested = FALSE

\* main.py line 72: parse_arguments; argparse ends the process with status 2
\* on a --provider value outside choices
MainParseArguments ==
    /\ mpc = "args"
    /\ IF ArgparseAccepts(arg_provider)
       THEN mpc' = "config" /\ exit_code' = exit_code
       ELSE mpc' = "exit" /\ exit_code' = 2
    /\ UNCHANGED <<arg_provider, cfg_provider, md_files, fileNo, collected,
                   processed_count, written, visited, requested>>
    /\ UNCHANGED <<orchVars, parseVars, gwVars, exportVars, chunkVars, coordVars>>

\* main.py lines 76-81 and config.py lines 24-28; a ValueError is caught at
\* main.py line 141 and main returns 1
MainConfig ==
    /\ mpc = "config"
    /\ cfg_provider' = Lower(arg_provider)
    /\ IF Lower(arg_provider) \in SupportedProviders
       THEN mpc' = "scan" /\ exit_code' = exit_code
       ELSE mpc' = "exit" /\ exit_code' = 1
    /\ UNCHANGED <<arg_provider, md_files, fileNo, collected, processed_count,
                   written, visited, requested>>
    /\ UNCHANGED <<orchVars, parseVars, gwVars, exportVars, chunkVars, coordVars>>

\* main.py lines 87-101: the vault holds the files v
MainDiscover ==
    /\ mpc = "scan"
    /\ \E v \in Vaults : md_files' = v
    /\ mpc' = "files"
    /\ UNCHANGED <<arg_provider, cfg_provider, exit_code, fileNo, collected,
                   processed_count, written, visited, requested>>
    /\ UNCHANGED <<orchVars, parseVars, gwVars, exportVars, chunkVars, coordVars>>

\* main.py line 88: ObsidianProcessor raises on a missing vault; lines 141-146
MainVaultMissing ==
    /\ mpc = "scan"
    /\ mpc' = "exit"
    /\ exit_code' = 1
    /\ UNCHANGED <<arg_provider, cfg_provider, md_files, fileNo, collected,
                   processed_count, written, visited, requested>>
    /\ UNCHANGED <<orchVars, parseVars, gwVars, exportVars, chunkVars, coordVars>>

\* main.py lines 104-114: the file is read and skipped
MainSkipFile ==
    /\ mpc = "files"
    /\ fileNo < Len(md_files)
    /\ ~ShouldProcess(md_files[fileNo + 1])
    /\ visited' = Append(visited, fileNo + 1)
    /\ fileNo' = fileNo + 1
    /\ UNCHANGED <<mpc, arg_provider, cfg_provider, exit_code, md_files,
                   collected, processed_count, written, requested>>
    /\ UNCHANGED <<orchVars, parseVars, gwVars, exportVars, chunkVars, coordVars>>

\* main.py lines 104-117: the file is read and generate_flashcards is called
MainGenerate ==
    /\ mpc = "files"
    /\ fileNo < Len(md_files)
    /\ ShouldProcess(md_files[fileNo + 1])
    /\ visited' = Append(visited, fileNo + 1)
    /\ content' = md_files[fileNo + 1].content
    /\ mpc' = "generate"
    /\ gpc' = "start"
    /\ UNCHANGED <<arg_provider, cfg_provider, exit_code, md_files, fileNo,
                   collected, processed_count, written, requested>>
    /\ UNCHANGED <<cpc, paragraphs, paraNo, current_chunk, chunks>>
    /\ UNCHANGED <<chunkNo, all_flashcards, handed, results, log, outstanding>>
    /\ UNCHANGED <<orchVars, parseVars, gwVars, exportVars>>

\* llm_client.py lines 92-97: _generate_flashcards_from_chunk is entered
LoopStarts(body, filename) ==
    /\ pc' = "loop"
    /\ attempt' = 0
    /\ prompt' = CreatePrompt(body, filename, "it")
    /\ sent' = <<>>
    /\ events' = <<>>
    /\ returned' = <<>>
    /\ UNCHANGED escaped

\* the call of _generate_flashcards_from_chunk is over
LoopLeft ==
    /\ pc' = "idle"
    /\ attempt' = 0
    /\ prompt' = <<>>
    /\ sent' = <<>>
    /\ events' = <<>>
    /\ returned' = <<>>
    /\ UNCHANGED escaped

\* llm_client.py lines 48-51 and 76-78: the content is handed over whole
GenSingle ==
    /\ gpc = "start"
    /\ ~(TLen(content) > ChunkThreshold)
    /\ gpc' = "single"
    /\ handed' = Append(handed, 0)
    /\ LoopStarts(content, md_files[fileNo + 1].stem)
    /\ UNCHANGED <<chunkNo, all_flashcards, results, log, outstanding>>
    /\ UNCHANGED <<parseVars, gwVars, exportVars, chunkVars, mainVars>>

\* llm_client.py lines 48-56: _chunk_content is called
GenChunk ==
    /\ gpc = "start"
    /\ TLen(content) > ChunkThreshold
    /\ gpc' = "chunking"
    /\ cpc' = "start"
    /\ UNCHANGED <<content, paragraphs, paraNo, current_chunk, chunks>>
    /\ UNCHANGED <<chunkNo, all_flashcards, handed, results, log, outstanding>>
    /\ UNCHANGED <<orchVars, parseVars, gwVars, exportVars, mainVars>>

\* llm_client.py lines 60-66: the next chunk is handed to the retry loop
GenStartChunk ==
    /\ gpc \in {"chunking", "chunks"}
    /\ cpc = "done"
    /\ pc = "idle"
    /\ chunkNo < Len(chunks)
    /\ gpc' = "chunks"
    /\ chunkNo' = chunkNo + 1
    /\ handed' = Append(handed, chunkNo + 1)
    /\ LoopStarts(chunks[chunkNo + 1],
                  <<md_files[fileNo + 1].stem, chunkNo + 1, Len(chunks)>>)
    /\ UNCHANGED <<all_flashcards, results, log, outstanding>>
    /\ UNCHANGED <<parseVars, gwVars, exportVars, chunkVars, mainVars>>

\* llm_client.py lines 102-105 with 208 / 226: the request is sent
PostRequest ==
    /\ mpc = "generate"
    /\ pc = "loop"
    /\ LoopContinues(attempt)
    /\ PostReturned(outstanding)
    /\ outstanding' = outstanding + 1
    /\ log' = Append(log, <<chunkNo, attempt + 1>>)
    /\ requested' = TRUE
    /\ UNCHANGED <<gpc, chunkNo, all_flashcards, handed, results>>
    /\ UNCHANGED <<mpc, arg_provider, cfg_provider, exit_code, md_files, fileNo,
                   collected, processed_count, written, visited>>
    /\ UNCHANGED <<orchVars, parseVars, gwVars, exportVars, chunkVars>>

\* the rest of the loop iteration once the request is answered
Answered ==
    /\ outstanding > 0
    /\ outstanding' = outstanding - 1
    /\ UNCHANGED <<gpc, chunkNo, all_flashcards, handed, results, log>>
    /\ UNCHANGED <<parseVars, gwVars, exportVars, chunkVars, mainVars>>

ReplyWithCards == SucceedsOn(PipelineTexts) /\ Answered
ReplyWithoutCards == EmptyOn(PipelineTexts) /\ Answered
ReplyFails == RaisesOn(PipelineErrors) /\ Answered

\* llm_client.py lines 141-145 inside a run of the program
RetriesExhausted ==
    /\ mpc = "generate"
    /\ LoopEnds
    /\ UNCHANGED <<parseVars, gwVars, exportVars, chunkVars, coordVars, mainVars>>

\* llm_client.py lines 66-70: the result of the chunk is collected
GenCollect ==
    /\ gpc = "chunks"
    /\ pc \in {"success", "exhausted"}
    /\ results' = Append(results, returned)
    /\ all_flashcards' = IF returned # <<>>
                         THEN ExtendedWith(all_flashcards, returned)
                         ELSE all_flashcards
    /\ LoopLeft
    /\ UNCHANGED <<gpc, chunkNo, handed, log, outstanding>>
    /\ UNCHANGED <<parseVars, gwVars, exportVars, chunkVars, mainVars>>

\* llm_client.py lines 72-75: every chunk is done
GenReturnChunked ==
    /\ gpc = "chunks"
    /\ pc = "idle"
    /\ chunkNo = Len(chunks)
    /\ gpc' = "returned"
    /\ UNCHANGED <<chunkNo, all_flashcards, handed, results, log, outstanding>>
    /\ UNCHANGED <<orchVars, parseVars, gwVars, exportVars, chunkVars, mainVars>>

\* llm_client.py line 78: the result of the single call is returned
GenReturnSingle ==
    /\ gpc = "single"
    /\ pc \in {"success", "exhausted"}
    /\ gpc' = "returned"
    /\ results' = Append(results, returned)
    /\ all_flashcards' = returned
    /\ LoopLeft
    /\ UNCHANGED <<chunkNo, handed, log, outstanding>>
    /\ UNCHANGED <<parseVars, gwVars, exportVars, chunkVars, mainVars>>

\* main.py lines 117-129: the flashcards of the file are tagged and collected
MainCollect ==
    /\ mpc = "generate"
    /\ gpc = "returned"
    /\ IF all_flashcards # <<>>
       THEN /\ collected' = ExtendedWith(collected,
                               Tagged(all_flashcards, md_files[fileNo + 1].stem))
            /\ processed_count' = processed_count + 1
       ELSE UNCHANGED <<collected, processed_count>>
    /\ fileNo' = fileNo + 1
    /\ mpc' = "files"
    /\ gpc' = "idle"
    /\ chunkNo' = 0
    /\ all_flashcards' = <<>>
    /\ handed' = <<>>
    /\ results' = <<>>
    /\ log' = <<>>
    /\ outstanding' = 0
    /\ cpc' = "idle"
    /\ content' = <<>>
    /\ paragraphs' = <<>>
    /\ paraNo' = 0
    /\ current_chunk' = <<>>
    /\ chunks' = <<>>
    /\ UNCHANGED <<arg_provider, cfg_provider, exit_code, md_files, written,
                   visited, requested>>
    /\ UNCHANGED <<orchVars, parseVars, gwVars, exportVars>>

\* main.py lines 131-148: the loop is over
MainExport ==
    /\ mpc = "files"
    /\ fileNo = Len(md_files)
    /\ written' = (collected # <<>>)
    /\ exit_code' = 0
    /\ mpc' = "exit"
    /\ UNCHANGED <<arg_provider, cfg_provider, md_files, fileNo, collected,
                   processed_count, visited, requested>>
    /\ UNCHANGED <<orchVars, parseVars, gwVars, exportVars, chunkVars, coordVars>>

PipelineNext ==
    \/ MainParseArguments
    \/ MainConfig
    \/ MainDiscover
    \/ MainVaultMissing
    \/ MainSkipFile
    \/ MainGenerate
    \/ GenSingle
    \/ GenChunk
    \/ ChunkSplit
    \/ ChunkSeal
    \/ ChunkExtend
    \/ ChunkFinish
    \/ GenStartChunk
    \/ PostRequest
    \/ ReplyWithCards
    \/ ReplyWithoutCards
    \/ ReplyFails
    \/ RetriesExhausted
    \/ GenCollect
    \/ GenReturnChunked
    \/ GenReturnSingle
    \/ MainCollect
    \/ MainExport

PipelineSpec == PipelineInit /\ [][PipelineNext]_vars

\* every step of the program ends: a gateway call returns or raises, a sleep
\* is over, a file is read
FairPipelineSpec == PipelineSpec /\ WF_vars(PipelineNext)

(***************************************************************************)
(* _call_ollama and _call_lmstudio: one gateway call, from the POST to the *)
(* text handed back to the retry loop.                                     *)
(***************************************************************************)
\* self.session.timeout = 120 (line 30)
SessionTimeout == 120

\* the attributes __init__ sets on the Session object
SessionAttrs == [timeout |-> SessionTimeout]

\* the keyword arguments of self.session.post(self.config.endpoint, json=data)
PostKwargs == [json |-> "data"]

\* requests.Session.request(..., timeout=None, ...): the timeout of a request
\* is its timeout argument; a Session has no timeout setting of its own and
\* an attribute of that name is never read
RequestTimeout(kwargs, attrs) ==
    IF "timeout" \in DOMAIN kwargs THEN <<kwargs.timeout>> ELSE NoTimeout

KeyResponse == <<"r", "e", "s", "p", "o", "n", "s", "e">>
KeyChoices == <<"c", "h", "o", "i", "c", "e", "s">>
KeyMessage == <<"m", "e", "s", "s", "a", "g", "e">>
KeyContent == <<"c", "o", "n", "t", "e", "n", "t">>

\* a reply body that response.json() cannot decode
NotJson == [t |-> "notjson"]

\* d[key] inside the call: the value or the exception
Subscript(d, key) ==
    IF d.t # "obj" THEN Raise("TypeError")
    ELSE IF ~HasKey(d, key) THEN Raise("KeyError")
    ELSE [kind |-> "value", v |-> Lookup(d, key)]

\* response.json()["response"] (line 211)
OllamaText(body) ==
    IF body = NotJson THEN Raise("JSONDecodeError")
    ELSE LET r == Subscript(body, KeyResponse) IN
         IF r.kind = "raise" THEN r ELSE Return(r.v)

\* response.json()["choices"][0]["message"]["content"] (line 229)
LmStudioText(body) ==
    IF body = NotJson THEN Raise("JSONDecodeError")
    ELSE LET c == Subscript(body, KeyChoices) IN
         IF c.kind = "raise" THEN c
         ELSE IF c.v.t # "arr" THEN Raise("TypeError")
         ELSE IF c.v.items = <<>> THEN Raise("IndexError")
         ELSE LET m == Subscript(c.v.items[1], KeyMessage) IN
              IF m.kind = "raise" THEN m
              ELSE LET t == Subscript(m.v, KeyContent) IN
                   IF t.kind = "raise" THEN t ELSE Return(t.v)

\* what the backend answers
ReplyStatuses == {200, 201, 404, 500}

ReplyBodies ==
    { NotJson,
      JObj(<<>>, <<>>),
      JArr(<<>>),
      JObj(<<KeyResponse>>, <<JStr(<<"h", "i">>)>>),
      JObj(<<KeyChoices>>, <<JArr(<<>>)>>),
      JObj(<<KeyChoices>>,
           <<JArr(<<JObj(<<KeyMessage>>,
                         <<JObj(<<KeyContent>>, <<JStr(<<"h", "i">>)>>)>>)>>)>>) }

GatewayInit ==
    /\ OrchIdle
    /\ ParserIdle
    /\ ChunkIdle
    /\ CoordIdle
    /\ MainIdle
    /\ ExportIdle
    /\ gwpc = "start"
    /\ gw_provider \in SupportedProviders
    /\ gw_timeout = NoTimeout
    /\ gw_reply = "none"
    /\ gw_result = <<>>

\* lines 208 / 226: the request is sent and the backend answers
PostReplied ==
    /\ gwpc = "start"
    /\ gw_timeout' = RequestTimeout(PostKwargs, SessionAttrs)
    /\ \E st \in ReplyStatuses, body \in ReplyBodies :
          gw_reply' = [answer |-> "reply", status |-> st, body |-> body]
    /\ gwpc' = "replied"
    /\ UNCHANGED <<gw_provider, gw_result>>
    /\ UNCHANGED <<orchVars, parseVars, chunkVars, coordVars, mainVars,
                   exportVars>>

\* lines 208 / 226: nothing listens at the endpoint
PostRefused ==
    /\ gwpc = "start"
    /\ gw_timeout' = RequestTimeout(PostKwargs, SessionAttrs)
    /\ gw_reply' = [answer |-> "refused"]
    /\ gwpc' = "raised"
    /\ gw_result' = Raise("ConnectionError")
    /\ UNCHANGED gw_provider
    /\ UNCHANGED <<orchVars, parseVars, chunkVars, coordVars, mainVars,
                   exportVars>>

\* lines 208 / 226: the backend takes the request and never answers; the call
\* ends with a Timeout error when the request carries a timeout and does not
\* end otherwise
PostUnanswered ==
    /\ gwpc = "start"
    /\ gw_timeout' = RequestTimeout(PostKwargs, SessionAttrs)
    /\ gw_reply' = [answer |-> "silent"]
    /\ IF RequestTimeout(PostKwargs, SessionAttrs) = NoTimeout
       THEN gwpc' = "blocked" /\ gw_result' = gw_result
       ELSE gwpc' = "raised" /\ gw_result' = Raise("Timeout")
    /\ UNCHANGED gw_provider
    /\ UNCHANGED <<orchVars, parseVars, chunkVars, coordVars, mainVars,
                   exportVars>>

\* lines 209 / 227: response.raise_for_status()
RaiseForStatus ==
    /\ gwpc = "replied"
    /\ IF gw_reply.status >= 400
       THEN gwpc' = "raised" /\ gw_result' = Raise("HTTPError")
       ELSE gwpc' = "checked" /\ gw_result' = gw_result
    /\ UNCHANGED <<gw_provider, gw_timeout, gw_reply>>
    /\ UNCHANGED <<orchVars, parseVars, chunkVars, coordVars, mainVars,
                   exportVars>>

\* lines 211 / 229: the text is taken out of the reply
TextExtracted ==
    /\ gwpc = "checked"
    /\ LET r == IF gw_provider = <<"o", "l", "l", "a", "m", "a">>
                THEN OllamaText(gw_reply.body)
                ELSE LmStudioText(gw_reply.body)
       IN  IF r.kind = "raise"
           THEN gwpc' = "raised" /\ gw_result' = r
           ELSE gwpc' = "returned" /\ gw_result' = r
    /\ UNCHANGED <<gw_provider, gw_timeout, gw_reply>>
    /\ UNCHANGED <<orchVars, parseVars, chunkVars, coordVars, mainVars,
                   exportVars>>

GatewayNext ==
    \/ PostReplied
    \/ PostRefused
    \/ PostUnanswered
    \/ RaiseForStatus
    \/ TextExtracted

GatewaySpec == GatewayInit /\ [][GatewayNext]_vars

(***************************************************************************)
(* AnkiExporter: export_to_csv and _clean_text_for_anki.                   *)
(***************************************************************************)
\* str.replace(old, new), old not empty
RECURSIVE ReplaceAll(_, _, _)
ReplaceAll(s, old, new) ==
    IF s = <<>> THEN <<>>
    ELSE IF StartsWith(s, old)
    THEN new \o ReplaceAll(SubSeq(s, Len(old) + 1, Len(s)), old, new)
    ELSE <<Head(s)>> \o ReplaceAll(Tail(s), old, new)

\* str.split(): the words between runs of whitespace
RECURSIVE SplitWords(_)
SplitWords(s) ==
    LET t == LStrip(s) IN
    IF t = <<>> THEN <<>>
    ELSE LET ends == { k \in 1..Len(t) : t[k] \in Whitespace }
             k == IF ends = {} THEN Len(t) + 1
                  ELSE CHOOSE e \in ends : \A m \in ends : e <= m
         IN  <<SubSeq(t, 1, k - 1)>> \o SplitWords(SubSeq(t, k, Len(t)))

LineBreak == <<"<", "b", "r", ">">>
EscapedLt == <<"&", "l", "t", ";">>
EscapedGt == <<"&", "g", "t", ";">>

\* text.replace('<', '&lt;').replace('>', '&gt;')
EscapeHtml(text) ==
    ReplaceAll(ReplaceAll(text, <<"<">>, EscapedLt), <<">">>, EscapedGt)

\* _clean_text_for_anki
CleanTextForAnki(text) ==
    IF text = <<>> THEN <<>>
    ELSE LET broken == ReplaceAll(text, <<NL>>, LineBreak)
             normal == JoinSpace(SplitWords(broken))
             entities == EscapeHtml(normal)
             kept == ReplaceAll(entities, LineBreak, LineBreak)
         IN  Strip(kept)

KeyTags == <<"t", "a", "g", "s">>

\* card.get(key, '')
CardField(card, key) == DictGet(card, key, JStr(<<>>)).s

\* csv.writer(delimiter=';', quotechar='"', quoting=csv.QUOTE_MINIMAL): a
\* field holding the delimiter, the quote character or a line end is quoted,
\* its quotes doubled
CsvField(field) ==
    IF \E k \in 1..Len(field) : field[k] \in {";", Quote, NL, "\r"}
    THEN <<Quote>> \o ReplaceAll(field, <<Quote>>, <<Quote, Quote>>) \o <<Quote>>
    ELSE field

\* writer.writerow([question, answer, tags]): the line put into the file
CsvRow(fields) ==
    CsvField(fields[1]) \o <<";">> \o CsvField(fields[2]) \o <<";">>
        \o CsvField(fields[3]) \o <<"\r", NL>>

\* cards per export
MaxExport == 2

ExportTexts ==
    { <<>>,
      <<"o", "k">>,
      <<"a", NL, "b">>,
      <<"a", "<", "b", ">">>,
      <<" ", NL, " ">> }

ExportCards ==
    { JObj(<<KeyQuestion, KeyAnswer, KeyTags>>,
           <<JStr(q), JStr(a), JStr(<<"t">>)>>) : q \in ExportTexts, a \in ExportTexts }
    \cup { JObj(<<KeyAnswer>>, <<JStr(<<"o", "k">>)>>) }

ExportInit ==
    /\ OrchIdle
    /\ ParserIdle
    /\ ChunkIdle
    /\ CoordIdle
    /\ MainIdle
    /\ GatewayIdle
    /\ xpc = "start"
    /\ x_cards \in UNION { [1..n -> ExportCards] : n \in 0..MaxExport }
    /\ cardNo = 0
    /\ rows = <<>>

\* lines 36-37: if not flashcards: raise ValueError
ExportNothing ==
    /\ xpc = "start"
    /\ x_cards = <<>>
    /\ xpc' = "raised"
    /\ UNCHANGED <<x_cards, cardNo, rows>>
    /\ UNCHANGED <<orchVars, parseVars, chunkVars, coordVars, mainVars, gwVars>>

\* lines 40-45: the output file is created empty
ExportOpen ==
    /\ xpc = "start"
    /\ x_cards # <<>>
    /\ xpc' = "loop"
    /\ rows' = <<>>
    /\ UNCHANGED <<x_cards, cardNo>>
    /\ UNCHANGED <<orchVars, parseVars, chunkVars, coordVars, mainVars, gwVars>>

\* lines 48-54: one card of the for loop; the row is written if the cleaned
\* question and answer are not empty
ExportCard ==
    /\ xpc = "loop"
    /\ cardNo < Len(x_cards)
    /\ LET card == x_cards[cardNo + 1]
           question == CleanTextForAnki(CardField(card, KeyQuestion))
           answer == CleanTextForAnki(CardField(card, KeyAnswer))
           tags == CardField(card, KeyTags)
       IN  rows' = IF question # <<>> /\ answer # <<>>
                   THEN Append(rows, [fields |-> <<question, answer, tags>>,
                                      line |-> CsvRow(<<question, answer, tags>>)])
                   ELSE rows
    /\ cardNo' = cardNo + 1
    /\ UNCHANGED <<xpc, x_cards>>
    /\ UNCHANGED <<orchVars, parseVars, chunkVars, coordVars, mainVars, gwVars>>

\* the loop is over and the file is closed
ExportClose ==
    /\ xpc = "loop"
    /\ cardNo = Len(x_cards)
    /\ xpc' = "done"
    /\ UNCHANGED <<x_cards, cardNo, rows>>
    /\ UNCHANGED <<orchVars, parseVars, chunkVars, coordVars, mainVars, gwVars>>

ExportNext ==
    \/ ExportNothing
    \/ ExportOpen
    \/ ExportCard
    \/ ExportClose

ExportSpec == ExportInit /\ [][ExportNext]_vars

(***************************************************************************)
(* Properties of the retry loop.                                           *)
(***************************************************************************)
CallIndices == { i \in 1..Len(events) : events[i].e = "call" }
FailedCall(ev) == ev.e = "call" /\ ev.out # "ok"
ErrorCall(ev) == ev.e = "call" /\ ev.out \notin {"ok", "empty"}
Returned == pc \in {"success", "exhausted"}

\* no exception has left the function, and what is returned while no attempt
\* has succeeded is the empty list
C1_NothingEscapes ==
    /\ ~escaped
    /\ pc # "raised"
    /\ (pc = "exhausted" => returned = <<>>)
    /\ ((\A i \in CallIndices : FailedCall(events[i])) => returned = <<>>)

\* C1: whatever the outcome of each attempt (the gateway raises, the text parses
\* to nothing, the text parses to flashcards), the function ends by returning a
\* list, no exception leaves it, and the list is empty when every attempt
\* failed.
C1_AlwaysReturnsAList == <>Returned /\ [](C1_NothingEscapes)

\* all three attempts failed, by an exception and by empty parses, and the
\* empty list was returned
C1_Witness ==
    /\ pc = "exhausted"
    /\ returned = <<>>
    /\ Len(sent) = MaxRetries
    /\ \E i \in CallIndices : events[i].out = "KeyError"
    /\ \E i \in CallIndices : events[i].out = "empty"

\* C2: when attempt 1 fails, by a gateway error or by an empty parse, the
\* prompt of attempt 1 is without the reinforcement clause and the prompt of
\* every later attempt carries it.
C2_ReinforcedAfterFirstFailure ==
    \A i \in 1..Len(sent) : ContainsReinforcement(sent[i]) <=> i >= 2

\* C3: the gateway is never called more than max_attempts times for one chunk,
\* and exactly max_attempts times when every attempt fails.
C3_GatewayCallBound ==
    /\ Len(sent) <= MaxRetries
    /\ Cardinality(CallIndices) = Len(sent)
    /\ pc = "exhausted" => Len(sent) = MaxRetries
    /\ (pc # "loop" /\ \A i \in CallIndices : FailedCall(events[i]))
          => Len(sent) = MaxRetries

\* the loop ran out after an error, an empty parse and another error
C3_Witness ==
    /\ pc = "exhausted"
    /\ Len(sent) = 3
    /\ ErrorCall(events[1])
    /\ \E i \in CallIndices : events[i].out = "empty"

\* C4: the k-th failed attempt is followed by a wait of exactly
\* retry_delay * 2^(k-1) when k < max_attempts, whether it failed by an error or
\* by an empty parse; nothing is waited after the last failed attempt or after
\* a success, and there is no other wait.
C4_ExponentialBackoff ==
    /\ \A i \in CallIndices :
          IF FailedCall(events[i]) /\ events[i].n < MaxRetries
          THEN /\ i < Len(events)
               /\ events[i + 1] = SleepEvent(RetryDelay * 2 ^ (events[i].n - 1))
          ELSE i = Len(events)
    /\ \A i \in 1..Len(events) :
          events[i].e = "sleep" => i > 1 /\ FailedCall(events[i - 1])
    /\ \A i \in CallIndices :
          events[i].n = Cardinality({ j \in CallIndices : j <= i })

\* an error, a wait of 2, an empty parse, a wait of 4, a third failure, no wait
C4_Witness ==
    /\ pc = "exhausted"
    /\ Len(events) = 5
    /\ ErrorCall(events[1])
    /\ events[2] = SleepEvent(2)
    /\ events[3].out = "empty"
    /\ events[4] = SleepEvent(4)
    /\ FailedCall(events[5])

\* C5: the first attempt whose text parses to a non-empty sequence ends the
\* loop: that sequence is what is returned, and no gateway call, wait or prompt
\* change follows it.
C5_FirstSuccessReturns ==
    /\ \A i \in CallIndices :
          (/\ ~ErrorCall(events[i])
           /\ ExtractFlashcardsFromResponse(events[i].resp).cards # <<>>)
          => /\ i = Len(events)
             /\ pc = "success"
             /\ returned = ExtractFlashcardsFromResponse(events[i].resp).cards
             /\ prompt = sent[Len(sent)]
             /\ ~ENABLED Next
    /\ pc = "success" =>
          /\ events # <<>>
          /\ events[Len(events)].e = "call"
          /\ events[Len(events)].out = "ok"
          /\ returned # <<>>

\* success on the second attempt, after a failed first one and its wait
C5_Witness ==
    /\ pc = "success"
    /\ Len(sent) = 2
    /\ Len(returned) = 2
    /\ events[2].e = "sleep"

(***************************************************************************)
(* Properties of the response parser.                                      *)
(***************************************************************************)
\* a flashcard whose question and answer are texts, non-empty once trimmed
NonBlankCard(card) ==
    /\ card.t = "obj"
    /\ HasKey(card, KeyQuestion)
    /\ HasKey(card, KeyAnswer)
    /\ Lookup(card, KeyQuestion).t = "str"
    /\ Lookup(card, KeyAnswer).t = "str"
    /\ Strip(Lookup(card, KeyQuestion).s) # <<>>
    /\ Strip(Lookup(card, KeyAnswer).s) # <<>>

QuestionLines(resp) ==
    { i \in 1..Len(SplitLines(resp)) : IsQuestionLine(Strip(SplitLines(resp)[i])) }

\* C6: every flashcard the parser returns, and every one the heuristic path has
\* collected so far, has a question and an answer that are non-empty after
\* trimming; a candidate without that is in the result not at all.
C6_CardsAreNonBlank ==
    /\ \A i \in 1..Len(presult) : NonBlankCard(presult[i])
    /\ \A i \in 1..Len(flashcards) : NonBlankCard(flashcards[i])
    /\ ppc = "done" /\ ~praised =>
          presult = ExtractFlashcardsFromResponse(response).cards

\* the heuristic path returned a flashcard and dropped another candidate
C6_Witness ==
    /\ ppc = "done"
    /\ structured = "nomatch"
    /\ Len(presult) = 1
    /\ Cardinality(QuestionLines(response)) = 2

\* C7: when the brace span parses but yields no valid entry, the parser falls
\* through to the heuristic path and returns that path's result.
C7_EmptyStructuredFallsThrough ==
    (/\ ppc = "done"
     /\ structured = "return"
     /\ TryStructured(response).cards = <<>>)
    => presult = ParseQaFormat(response)

\* C8: the parser returns a sequence for every raw text and no exception
\* leaves it, also when the brace span is no JSON, when "flashcards" is not a
\* list and when a question or an answer is not a string.
C8_ParserNeverRaises ==
    /\ ~praised
    /\ structured \in {"none", "return", "nomatch", "JSONDecodeError",
                       "TypeError", "AttributeError"}
    /\ ppc = "qa" => lineNo <= Len(Lines) /\ structured # "return"
    /\ ppc = "done" => \A i \in 1..Len(presult) : presult[i].t = "obj"

\* the try block raised on a value of the wrong type and the parser returned
C8_Witness ==
    /\ ppc = "done"
    /\ ~praised
    /\ structured \in {"TypeError", "AttributeError"}

\* the entries of the "flashcards" field of the parsed span
SpanData == JsonLoads(JsonSpan(response)).v
SpanEntries == DictGet(SpanData, KeyFlashcards, JArr(<<>>))

\* C9: when the widest brace span parses as an object whose "flashcards" is a
\* list, the result is exactly the entries of that list that are records with a
\* non-blank question and a non-blank answer, in their order.
C9_StructuredSubsequence ==
    (/\ ppc = "done"
     /\ HasJsonMatch(response)
     /\ JsonLoads(JsonSpan(response)).ok
     /\ SpanEntries.t = "arr")
    => presult = SelectSeq(SpanEntries.items, NonBlankCard)

\* the pattern a marker line starts with
MarkerOf(line, patterns) == CHOOSE p \in patterns : StartsWith(line, p)

\* what follows the marker of a line; after a bold marker the closing
\* asterisks belong to the markup
AfterMarker(line, patterns) ==
    LET rest == SubSeq(line, Len(MarkerOf(line, patterns)) + 1, Len(line)) IN
    IF Head(MarkerOf(line, patterns)) = "*" /\ StartsWith(rest, <<"*", "*">>)
    THEN Strip(SubSeq(rest, 3, Len(rest)))
    ELSE Strip(rest)

\* the line the loop consumed last, stripped
LastLine == Strip(Lines[lineNo])

\* C10: after a question-marker line the stored question is exactly the
\* trimmed rest of the line after its marker, and after an answer-marker line
\* the answer starts with exactly the trimmed rest of the line after its marker
\* (the accumulator is empty when that rest is blank).
C10_MarkerPrefixStripped ==
    (ppc = "qa" /\ lineNo > 0) =>
        /\ IsQuestionLine(LastLine) =>
              current_q = AfterMarker(LastLine, QuestionPatterns)
        /\ (~IsQuestionLine(LastLine) /\ IsAnswerLine(LastLine)) =>
              current_a = IF AfterMarker(LastLine, AnswerPatterns) # <<>>
                          THEN <<AfterMarker(LastLine, AnswerPatterns)>>
                          ELSE <<>>

\* the marker words the specification names, each closed by a colon
NamedQuestionMarkers ==
    { <<"Q", ":">>,
      <<"Q", "u", "e", "s", "t", "i", "o", "n", ":">>,
      <<"D", "o", "m", "a", "n", "d", "a", ":">> }

NamedAnswerMarkers ==
    { <<"A", ":">>,
      <<"A", "n", "s", "w", "e", "r", ":">>,
      <<"R", "i", "s", "p", "o", "s", "t", "a", ":">> }

\* the line begins with one of the markers, bare or behind bold asterisks
BeginsWithMarker(line, markers) ==
    \E m \in markers : StartsWith(line, m) \/ StartsWith(line, <<"*", "*">> \o m)

\* C11: the for loop of the heuristic parser takes its question branch on
\* exactly the lines that begin with "Q:", "Question:" or "Domanda:", bare or
\* behind bold asterisks, and its answer branch on exactly the lines that begin
\* with "A:", "Answer:" or "Risposta:", bare or behind bold asterisks.
C11_MarkerClassification ==
    (ppc = "qa" /\ lineNo > 0) =>
        /\ branch = "question" <=> BeginsWithMarker(LastLine, NamedQuestionMarkers)
        /\ branch = "answer" <=> BeginsWithMarker(LastLine, NamedAnswerMarkers)

(***************************************************************************)
(* Properties of the chunker.                                              *)
(***************************************************************************)
\* the paragraph units of the text being chunked
Units == Split(content)

\* C12: unless the text holds a paragraph unit that is itself longer than the
\* maximum, no chunk the chunker returns is longer than the maximum.
C12_ChunkWithinMax ==
    (/\ cpc = "done"
     /\ \A i \in 1..Len(Units) : TLen(Units[i]) <= DefaultMaxChars)
    => \A j \in 1..Len(chunks) : TLen(chunks[j]) <= DefaultMaxChars

\* C13: whatever the input text, the chunker returns no empty chunk.
C13_NoEmptyChunk ==
    cpc = "done" => \A j \in 1..Len(chunks) : chunks[j] # <<>>

\* C14 as stated: for a text no longer than the maximum the chunker returns
\* exactly one element, the text trimmed of leading and trailing whitespace.
C14_ShortInputTrimmed ==
    (cpc = "done" /\ TLen(content) <= DefaultMaxChars)
    => chunks = <<TStrip(content)>>

\* C14: for a text no longer than the maximum the chunker returns exactly one
\* element, the text itself with its leading and trailing whitespace kept.
C14_ShortInputUnchanged ==
    (cpc = "done" /\ TLen(content) <= DefaultMaxChars)
    => chunks = <<content>>

\* a short text with whitespace at an end has been returned
C14_Witness ==
    /\ cpc = "done"
    /\ TLen(content) <= DefaultMaxChars
    /\ TStrip(content) # content
    /\ TStrip(content) # <<>>
    /\ chunks = <<content>>

NonEmpty(t) == t # <<>>

\* the paragraph units of a text that are not blank, each trimmed
TrimmedUnits(t) ==
    SelectSeq([i \in 1..Len(Split(t)) |-> TStrip(Split(t)[i])], NonEmpty)

\* the trimmed units of every chunk, in chunk order
RECURSIVE UnitsOfChunks(_)
UnitsOfChunks(cs) ==
    IF cs = <<>> THEN <<>>
    ELSE TrimmedUnits(Head(cs)) \o UnitsOfChunks(Tail(cs))

\* C15: for a text longer than the maximum, the chunks hold the paragraph
\* units of the text as consecutive runs in the original order, none dropped,
\* duplicated or reordered, and the chunks joined by paragraph breaks give back
\* the text up to the whitespace at unit boundaries.
C15_ChunksPartitionUnits ==
    (cpc = "done" /\ TLen(content) > DefaultMaxChars)
    => /\ UnitsOfChunks(chunks) = TrimmedUnits(content)
       /\ TrimmedUnits(JoinBreaks(chunks)) = TrimmedUnits(content)

\* a text of several units has been split into several chunks, one of them
\* holding more than one unit
C15_Witness ==
    /\ cpc = "done"
    /\ TLen(content) > DefaultMaxChars
    /\ Len(chunks) >= 2
    /\ \E j \in 1..Len(chunks) : Len(TrimmedUnits(chunks[j])) >= 2
    /\ UnitsOfChunks(chunks) = TrimmedUnits(content)

\* a document of 13,000 characters whose paragraphs are runs of letters, none
\* longer than the maximum, separated by exactly "\n\n"
CleanDocument ==
    /\ TLen(content) = 13000
    /\ \A k \in 1..Len(content) :
          IF k % 2 = 1
          THEN content[k].c = "a" /\ content[k].n <= DefaultMaxChars
          ELSE content[k] = Run(NL, 2)
    /\ Len(content) % 2 = 1

RECURSIVE Flattened(_)
Flattened(lists) ==
    IF lists = <<>> THEN <<>> ELSE Head(lists) \o Flattened(Tail(lists))

FirstIndices(n) == [i \in 1..n |-> i]

\* generate_flashcards is at work on a chunked document
Chunked == gpc \in {"chunks", "returned"} /\ cpc = "done"

\* the chunks handed over so far are 1, 2, ... in order, each once; at the
\* return every chunk has been handed over and the list returned is the
\* per-chunk results put together in chunk order; when the process ends after
\* the vault was listed, every file has been read
C17_InOrderSoFar ==
    /\ Chunked =>
          /\ handed = FirstIndices(chunkNo)
          /\ Len(results) \in {chunkNo - 1, chunkNo}
    /\ (Chunked /\ gpc = "returned") =>
          /\ handed = FirstIndices(Len(chunks))
          /\ Len(results) = Len(chunks)
          /\ all_flashcards = Flattened(results)
    /\ (mpc = "exit" /\ (exit_code = 0 \/ md_files # <<>>)) =>
          visited = FirstIndices(Len(md_files))

\* C17: in generate_flashcards every chunk of a chunked document is handed to
\* the retry loop exactly once and in chunk order whatever the earlier chunks
\* gave, a chunk whose retries are exhausted adds nothing, and the list
\* returned is the per-chunk results in chunk order; in main a file that gives
\* no flashcards does not stop the later files: the run always goes on to its
\* end.
C17_EveryChunkEveryFile ==
    <>(mpc = "exit") /\ [](C17_InOrderSoFar)

\* the second file is being processed after the first gave nothing, and its
\* second chunk gave flashcards after its first chunk exhausted its retries
C17_Witness ==
    /\ mpc = "generate"
    /\ fileNo = 1
    /\ ShouldProcess(md_files[1])
    /\ collected = <<>>
    /\ gpc = "returned"
    /\ Len(chunks) = 2
    /\ results[1] = <<>>
    /\ results[2] # <<>>
    /\ all_flashcards = results[2]

\* C18: at every moment at most one gateway request is outstanding; the
\* requests are sent in attempt order within a chunk and chunk after chunk; a
\* request of a chunk is sent only when every attempt of the chunks before it,
\* its backoff sleep included, is over and their results are collected.
C18_OneRequestAtATime ==
    /\ outstanding \in {0, 1}
    /\ \A k \in 1..Len(log) :
          IF k = 1
          THEN log[k][2] = 1
          ELSE \/ log[k][1] = log[k - 1][1] /\ log[k][2] = log[k - 1][2] + 1
               \/ log[k][1] = log[k - 1][1] + 1 /\ log[k][2] = 1
    /\ outstanding = 1 =>
          /\ log[Len(log)] = <<chunkNo, attempt + 1>>
          /\ Len(results) = Len(handed) - 1
          /\ Cardinality(CallIndices) = attempt
          /\ attempt > 0 =>
                events[Len(events)] = SleepEvent(RetryDelay * 2 ^ (attempt - 1))

\* the second request of the second chunk is outstanding
C18_Witness ==
    /\ outstanding = 1
    /\ chunkNo = 2
    /\ attempt = 1
    /\ log[Len(log)] = <<2, 2>>
    /\ Len(log) >= 3

\* C19: every request the gateway issues, for either backend, is sent with
\* the timeout of 120 seconds, and a call whose request gets no reply ends in
\* a failure instead of blocking
C19_RequestTimeout ==
    gwpc # "start" =>
        /\ gw_timeout = <<SessionTimeout>>
        /\ gw_reply.answer = "silent" =>
              /\ gwpc = "raised"
              /\ gw_result = Raise("Timeout")

\* nothing of the vault has been touched, nothing sent, nothing written
NothingDone ==
    /\ md_files = <<>>
    /\ visited = <<>>
    /\ ~requested
    /\ log = <<>>
    /\ ~written

\* C20 as stated: a provider outside {ollama, lmstudio}, compared without
\* regard to case, is rejected when Config is constructed: main returns exit
\* code 1 and nothing is read, sent or written.
C20_RejectedByConfig ==
    Lower(arg_provider) \notin SupportedProviders =>
        /\ NothingDone
        /\ mpc = "exit" => exit_code = 1 /\ cfg_provider = Lower(arg_provider)

\* C20: a --provider value outside the choices ollama and lmstudio, compared
\* with regard to case, is rejected by the argument parser before Config is
\* constructed: the process ends with exit status 2, and nothing is read, sent
\* or written.
C20_RejectedByArgparse ==
    arg_provider \notin ProviderChoices =>
        /\ NothingDone
        /\ cfg_provider = <<>>
        /\ mpc \in {"args", "exit"}
        /\ mpc = "exit" => exit_code = 2

\* the process has ended on an unsupported provider
C20_Witness ==
    /\ Lower(arg_provider) \notin SupportedProviders
    /\ mpc = "exit"
    /\ exit_code = 2
    /\ NothingDone

\* the prompts a loop can hold when it was built as `built`
PromptsOf(built) == {built, Append(built, Reinforcement)}

\* C22: in the retry loop of one chunk the prompt is built once and changes at
\* most once: the current prompt, and every prompt sent, is the prompt built
\* at the start or that prompt followed by one copy of the reinforcement
\* clause, and once the clause is there it stays.
C22_PromptChangesAtMostOnce ==
    \E language \in {"it", "en"} :
        LET built == CreatePrompt("chunk", "note.md", language) IN
        /\ prompt \in PromptsOf(built)
        /\ \A i \in 1..Len(sent) : sent[i] \in PromptsOf(built)
        /\ sent # <<>> => sent[1] = built
        /\ \A i \in 1..Len(sent) :
              sent[i] # built =>
                  /\ prompt # built
                  /\ \A j \in i..Len(sent) : sent[j] # built

\* three attempts parsed to nothing: the clause was added after the first and
\* not again after the second
C22_Witness ==
    /\ pc = "exhausted"
    /\ \A i \in CallIndices : events[i].out = "empty"
    /\ Len(sent) = MaxRetries
    /\ sent[2] = Append(sent[1], Reinforcement)
    /\ sent[3] = sent[2]
    /\ prompt = sent[3]

\* the lines of the raw text as the loop sees them
StrippedLines == [i \in 1..Len(Lines) |-> Strip(Lines[i])]

\* the lines from a question-marker line i up to the next question marker
SegmentEnd(L, i) ==
    IF \E j \in (i + 1)..Len(L) : IsQuestionLine(L[j])
    THEN (CHOOSE j \in (i + 1)..Len(L) :
              /\ IsQuestionLine(L[j])
              /\ \A k \in (i + 1)..(j - 1) : ~IsQuestionLine(L[k])) - 1
    ELSE Len(L)

\* the answer-marker lines of the segment of question line i
AnswerMarkersOf(L, i) == { k \in (i + 1)..SegmentEnd(L, i) : IsAnswerLine(L[k]) }

\* a continuation line: not blank, no marker, no bullet
IsPlainLine(line) ==
    /\ line # <<>>
    /\ ~IsQuestionLine(line)
    /\ ~IsAnswerLine(line)
    /\ Head(line) \notin BulletMarkers

\* what an answer-marker line contributes: the rest of the line after its
\* marker, or (as_stored) what line 287 leaves of the line
AnswerRemainder(line, as_stored) ==
    IF as_stored THEN AnswerText(line) ELSE AfterMarker(line, AnswerPatterns)

\* the answer lines question line i has gathered at the end of its segment
AnswerParts(L, i, as_stored) ==
    LET marks == AnswerMarkersOf(L, i)
        last == CHOOSE k \in marks : \A m \in marks : m <= k
        from == IF marks = {} THEN i ELSE last
        first == IF marks # {} /\ AnswerRemainder(L[last], as_stored) # <<>>
                 THEN <<AnswerRemainder(L[last], as_stored)>> ELSE <<>>
    IN  first \o SelectSeq(SubSeq(L, from + 1, SegmentEnd(L, i)), IsPlainLine)

\* the answers of the flashcards of the lines from i on, in the order of their
\* question lines
RECURSIVE AnswersFrom(_, _, _)
AnswersFrom(L, i, as_stored) ==
    IF i > Len(L) THEN <<>>
    ELSE IF /\ IsQuestionLine(L[i])
            /\ QuestionText(L[i]) # <<>>
            /\ AnswerParts(L, i, as_stored) # <<>>
    THEN <<JoinSpace(AnswerParts(L, i, as_stored))>>
             \o AnswersFrom(L, i + 1, as_stored)
    ELSE AnswersFrom(L, i + 1, as_stored)

\* the heuristic parser has returned
HeuristicDone == ppc = "done" /\ structured # "return" /\ ~praised

\* the answers of the flashcards returned
ReturnedAnswers ==
    [i \in 1..Len(presult) |-> Lookup(presult[i], KeyAnswer).s]

\* the accumulation alone, the answer-marker line contributing what line 287
\* leaves of it
AnswersAccumulated ==
    HeuristicDone => ReturnedAnswers = AnswersFrom(StrippedLines, 1, TRUE)

\* C23: the answer of each flashcard the heuristic parser returns is the
\* single-space join of the rest of the last answer-marker line after its
\* question line (when not blank) and the continuation lines after it; a
\* question without answer lines at the next question marker or at the end
\* gives no flashcard, and the flashcards come in the order of their question
\* lines.
C23_AnswerAccumulation ==
    HeuristicDone =>
        ReturnedAnswers = AnswersFrom(StrippedLines, 1, FALSE)

\* the text holds a blank-line paragraph break: two newlines with nothing but
\* whitespace between them
HasBlankLineBreak(t) ==
    \E i \in 1..Len(t), j \in 1..Len(t) :
        /\ i <= j
        /\ t[i].c = NL
        /\ t[j].c = NL
        /\ i < j \/ t[i].n >= 2
        /\ \A k \in i..j : t[k].c \in Whitespace

\* the chunker returns from the packing path (the text is longer than the
\* maximum)
PackingReturns == cpc = "loop" /\ cpc' = "done"

\* the text being chunked has content and no paragraph break
OneParagraphText == ~HasBlankLineBreak(content) /\ TStrip(content) # <<>>

\* "if not chunks" holds at line 343
SlicingTaken == chunks = <<>> /\ current_chunk = <<>>

\* the slicing fallback is taken only when every paragraph unit is empty
SlicingOnlyForEmptyUnits ==
    SlicingTaken => \A i \in 1..Len(paragraphs) : paragraphs[i] = <<>>

\* C24 as stated: a text longer than the maximum with content and without
\* paragraph break is returned as one chunk, the whole text trimmed, and that
\* chunk is longer than the maximum; the slicing fallback is taken only when
\* every paragraph unit is empty.
C24_OneLongChunk ==
    [][PackingReturns =>
          /\ OneParagraphText =>
                /\ chunks' = <<TStrip(content)>>
                /\ TLen(chunks'[1]) > DefaultMaxChars
          /\ SlicingOnlyForEmptyUnits]_vars

\* C24 amended: a text longer than the maximum with content and without
\* paragraph break is returned as one chunk, the whole text trimmed, of
\* whatever length the trimming leaves; the slicing fallback is taken only
\* when every paragraph unit is empty.
C24_OneTrimmedChunk ==
    [][PackingReturns =>
          /\ OneParagraphText => chunks' = <<TStrip(content)>>
          /\ SlicingOnlyForEmptyUnits]_vars

\* a text of 6,001 blanks and one letter has come back as the one-letter chunk
C24_Witness ==
    /\ cpc = "done"
    /\ TLen(content) > DefaultMaxChars
    /\ OneParagraphText
    /\ chunks = <<TStrip(content)>>
    /\ TLen(chunks[1]) <= DefaultMaxChars

(***************************************************************************)
(* Properties of the exporter.                                             *)
(***************************************************************************)
\* a character of the original text in the cleaned text: a newline as the
\* line-break markup, "<" and ">" escaped
CleanedChar(c) ==
    IF c = NL THEN LineBreak
    ELSE IF c = "<" THEN EscapedLt
    ELSE IF c = ">" THEN EscapedGt
    ELSE <<c>>

RECURSIVE CleanedChars(_)
CleanedChars(text) ==
    IF text = <<>> THEN <<>>
    ELSE CleanedChar(Head(text)) \o CleanedChars(Tail(text))

\* the cleaned field the claim describes: newlines of the original are
\* line-break markup, "<" and ">" of the original are escaped; whitespace is
\* normalised as the cleaning does, the newlines being marked before
CleanedField(text) == Strip(JoinSpace(SplitWords(CleanedChars(text))))

\* question and answer of the rows the claim describes for the cards
RECURSIVE CleanedPairs(_)
CleanedPairs(cards) ==
    IF cards = <<>> THEN <<>>
    ELSE LET question == CleanedField(CardField(Head(cards), KeyQuestion))
             answer == CleanedField(CardField(Head(cards), KeyAnswer))
         IN  IF question # <<>> /\ answer # <<>>
             THEN <<<<question, answer>>>> \o CleanedPairs(Tail(cards))
             ELSE CleanedPairs(Tail(cards))

\* question and answer of the rows written
WrittenPairs == [i \in 1..Len(rows) |-> <<rows[i].fields[1], rows[i].fields[2]>>]

\* C21: the rows of the file are, in the order of the input, those of the
\* flashcards whose cleaned question and cleaned answer are both non-empty,
\* one row each; in a cleaned field each newline of the original is the
\* line-break markup <br> and each "<" and ">" of the original is escaped.
C21_RowsOfCleanedCards ==
    xpc = "done" => WrittenPairs = CleanedPairs(x_cards)

====
